---- MODULE Spec2Model ----
(***************************************************************************)
(* State-machine model of the MMO7 user-space mouse driver:                *)
(*   main.rs   - hotplug watcher, Active Registry, device sessions,        *)
(*               configuration store, config epoch, client handlers        *)
(*   mapper.rs - per-device Mapper (mode, clicks, 15 mapped buttons,       *)
(*               repeat timers, config reload), the movement aggregator    *)
(*               worker and the macro executor worker.                     *)
(* Time is counted in milliseconds.  A Timer is kept as the time elapsed   *)
(* since its last_update instead of as an Instant.                         *)
(***************************************************************************)
EXTENDS Integers, Sequences, FiniteSets, TLC

----------------------------------------------------------------------------
(* Bounds of the model *)

MaxThreads == 2      \* session thread slots
MaxEpoch == 2        \* mouses_config_state_id values modelled: 0..MaxEpoch
MaxQueue == 4        \* sequences waiting in the emulation worker channel
MaxHost == 1         \* DeviceListUpdate messages waiting in the host channel
MaxAcc == 20         \* |x|, |y| of the movement accumulator
MaxHold == 130       \* saturation of the "held for" stopwatch (ms)
MaxGap == 80         \* saturation of the "since the last repeat" stopwatch (ms)
MaxClient == 2       \* Data messages waiting in the client channel

(* Program constants *)

RepeatPeriod == 50   \* Timer::new(Duration::from_millis(50))
ReadTimeout == 25    \* read_interrupt(.., Duration::from_millis(25))

Threads == 1..MaxThreads
Serials == {"S1", "S2"}

\* time a read_interrupt call may block before it returns a report
ReadDelays == {20, ReadTimeout}

Min(a, b) == IF a < b THEN a ELSE b
Abs(a) == IF a < 0 THEN -a ELSE a

----------------------------------------------------------------------------
(* Bytes and reports *)

\* (byte & (1 << k)) > 0
Bit(byte, k) == (byte \div (2 ^ k)) % 2 = 1

\* buffer[i] of the 8-byte report, i in 0..7
Byte(buffer, i) == buffer[i + 1]

ZeroBuffer == <<0, 0, 0, 0, 0, 0, 0, 0>>

\* if b < 128 { b as i32 } else { b as i32 - 256 }
Signed(b) == IF b < 128 THEN b ELSE b - 256

----------------------------------------------------------------------------
(* Configuration rows and their compilation *)

ButtonOrder ==
    << "back_button", "forwards_button", "button_1", "button_2", "button_3",
       "hat_top", "hat_bottom", "hat_left", "hat_right", "precision_aim",
       "thumb_clockwise", "thumb_anticlockwise", "scroll_button",
       "left_actionlock", "right_actionlock" >>

Buttons == {ButtonOrder[i] : i \in 1..Len(ButtonOrder)}

\* BTreeMap::contains_key / insert / (an external edit's) removal
HasRow(store, serial) == serial \in DOMAIN store

RECURSIVE Restrict(_, _)
\* the rows of the given keys
Restrict(store, keys) ==
    IF keys = {} THEN <<>>
    ELSE LET k == CHOOSE k \in keys : TRUE
         IN  (k :> store[k]) @@ Restrict(store, keys \ {k})

Insert(store, serial, row) ==
    (serial :> row) @@ Restrict(store, DOMAIN store \ {serial})

Remove(store, serial) == Restrict(store, DOMAIN store \ {serial})

\* ButtonConfigs::default(): every ButtonConfig is [vec![], vec![]]
DefaultConfigs == [b \in Buttons |-> << <<>>, <<>> >>]

\* two rows a client or an external edit can write
ConfigsA ==
    [DefaultConfigs EXCEPT !["back_button"] = << <<"a", "b">>, <<"c">> >>,
                           !["scroll_button"] = << <<"", "m">>, <<>> >>]

ConfigsB ==
    [DefaultConfigs EXCEPT !["back_button"] = << <<"d">>, <<"", "", "e">> >>,
                           !["button_1"] = << <<"f", "f", "f">>, <<"f", "f", "f">> >>]

\* a row whose scroll button has no program in Normal(0), a whole program
\* in Normal(1), an up sequence only in Normal(2) and a repeat sequence only
\* in Shift(0)
ConfigsC ==
    [DefaultConfigs EXCEPT !["back_button"] = << <<"a">>, <<>> >>,
                           !["scroll_button"] = << <<"", "m", "u">>, <<"r">> >>]

\* a row whose back button clicks the wheel up and whose forwards button
\* clicks it down
ConfigsD ==
    [DefaultConfigs EXCEPT !["back_button"] = << <<"ScrollUp">>, <<>> >>,
                           !["forwards_button"] = << <<"ScrollDown">>, <<>> >>]

Rows == {DefaultConfigs, ConfigsA, ConfigsB}

\* ButtonConfigs::to_config
ToConfig(row) ==
    << row["scroll_button"], row["left_actionlock"], row["right_actionlock"],
       row["forwards_button"], row["back_button"], row["thumb_anticlockwise"],
       row["thumb_clockwise"], row["hat_top"], row["hat_left"],
       row["hat_right"], row["hat_bottom"], row["button_1"],
       row["precision_aim"], row["button_2"], row["button_3"] >>

\* ButtonConfigs::from_config
ButtonConfigsFromConfig(data) ==
    [ scroll_button |-> data[1], left_actionlock |-> data[2],
      right_actionlock |-> data[3], forwards_button |-> data[4],
      back_button |-> data[5], thumb_anticlockwise |-> data[6],
      thumb_clockwise |-> data[7], hat_top |-> data[8], hat_left |-> data[9],
      hat_right |-> data[10], hat_bottom |-> data[11], button_1 |-> data[12],
      precision_aim |-> data[13], button_2 |-> data[14], button_3 |-> data[15] ]

EmptyStateToken == [down |-> <<>>, repeat |-> <<>>, up |-> <<>>]

\* util::tokenizer::tokenize: a pure compiler from a macro-spec string to a
\* StateToken; the empty string compiles to the all-empty program.
Tokenize(str) ==
    IF str = "" THEN EmptyStateToken
    ELSE IF str = "u"
    THEN [EmptyStateToken EXCEPT !.up = << <<"KeyUp", str>> >>]
    ELSE IF str = "r"
    THEN [EmptyStateToken EXCEPT !.repeat = << <<"Sequence", str>> >>]
    ELSE IF str \in {"ScrollUp", "ScrollDown"}
    THEN [EmptyStateToken EXCEPT !.down = << <<"Click", str>> >>]
    ELSE [down   |-> << <<"KeyDown", str>>, <<"Sequence", str>> >>,
          repeat |-> << <<"Sequence", str>> >>,
          up     |-> << <<"KeyUp", str>> >>]

\* ButtonConfigExt::tokenize: [[StateToken; 3]; 2], a missing slot stays default
TokenizeButton(button_config) ==
    [mode_type_index \in 0..1 |->
        [mode_index \in 0..2 |->
            IF mode_index + 1 <= Len(button_config[mode_type_index + 1])
            THEN Tokenize(button_config[mode_type_index + 1][mode_index + 1])
            ELSE EmptyStateToken]]

\* ButtonConfigsToken::from_config
FromConfig(button_configs) ==
    [b \in Buttons |-> TokenizeButton(button_configs[b])]

----------------------------------------------------------------------------
(* The Mapper (mapper.rs).  A Mapper value is a record; besides the fields *)
(* of struct Mapper it carries the effects of the pass being computed:     *)
(*   injected - calls made on the Mapper's own Enigo, in call order        *)
(*   sent     - emulation_worker_rx.send calls, in call order; every       *)
(*              entry carries the sent Vec<Token> (vec) and, as labels,    *)
(*              the button and the sequence kind it was taken from         *)
(*   moved    - the (dx, dy) added to the movement accumulator             *)
(*   notified - whether notify_one was called                              *)
(* The field button_configs_token is kept as the ButtonConfigs row it was  *)
(* compiled from (button_configs): the compiler is a pure function, so the *)
(* compiled programs are FromConfig of that row at every later moment.     *)

NewTimer == 0

\* Mapper::new, given the epoch and the row it read
NewMapper(state_id, button_configs) ==
    [ mode |-> <<"Normal", 0>>,
      click_state |-> [left |-> FALSE, right |-> FALSE, middle |-> FALSE],
      button_state |-> [b \in Buttons |-> FALSE],
      button_timer |-> [b \in Buttons |-> NewTimer],
      button_configs |-> button_configs,
      last_mouses_config_state_id |-> state_id,
      injected |-> <<>>,
      sent |-> <<>>,
      moved |-> <<0, 0>>,
      notified |-> FALSE ]

\* the effects of a pass start empty
BeginPass(m) ==
    [m EXCEPT !.injected = <<>>, !.sent = <<>>, !.moved = <<0, 0>>,
              !.notified = FALSE]

\* Timers run while read_interrupt blocks
AdvanceTimers(m, d) ==
    [m EXCEPT !.button_timer = [b \in Buttons |-> m.button_timer[b] + d]]

\* util::time::Timer::check: has the interval elapsed since last_update?
TimerCheck(elapsed) == elapsed >= RepeatPeriod

\* util::time::Timer::check: an elapsed timer restarts from now
TimerAfterCheck(elapsed) == IF TimerCheck(elapsed) THEN 0 ELSE elapsed

\* a mode update that keeps the context on the values 3 and 7
UpdateModeKeep(m, buffer) ==
    LET modes == Byte(buffer, 2) % 8
    IN  [m EXCEPT !.mode =
            IF modes \in {0, 1, 2} THEN <<"Normal", modes>>
            ELSE IF modes \in {4, 5, 6} THEN <<"Shift", modes - 4>>
            ELSE @]

UpdateMode(m, buffer) ==
    LET modes == Byte(buffer, 2) % 8
    IN  [m EXCEPT !.mode =
            IF modes \in {0, 1, 2} THEN <<"Normal", modes>>
            ELSE IF modes \in {4, 5, 6} THEN <<"Shift", modes - 4>>
            ELSE <<"Normal", 0>>]

IsShiftMode(m) == m.mode[1] = "Shift"

AbsoluteMode(m) == m.mode[2]

\* self.button_configs_token
ButtonConfigsToken(m) == FromConfig(m.button_configs)

GetStateToken(m, button_config_token) ==
    button_config_token[IF IsShiftMode(m) THEN 1 ELSE 0][AbsoluteMode(m)]

\* a click block that looks at the level of the bit, not at its change
ClickLevel(m, field, now, name) ==
    [m EXCEPT !.click_state[field] = now,
              !.injected = Append(@, IF now THEN <<"mouse_down", name>>
                                           ELSE <<"mouse_up", name>>)]

\* one of the three "if click_state.x != self.click_state.x" blocks
ClickEdge(m, field, now, name) ==
    IF now # m.click_state[field]
    THEN [m EXCEPT !.click_state[field] = now,
                   !.injected = Append(@, IF now THEN <<"mouse_down", name>>
                                                ELSE <<"mouse_up", name>>)]
    ELSE m

\* click blocks whose middle block looks at the down sequence only
BasicButtonsDownOnly(m, buffer) ==
    LET middle_button_state_token ==
            GetStateToken(m, TokenizeButton(m.button_configs["scroll_button"]))
        m1 == ClickEdge(m, "left", Bit(Byte(buffer, 0), 0), "Left")
        m2 == IF middle_button_state_token.down = <<>>
              THEN ClickEdge(m1, "middle", Bit(Byte(buffer, 0), 2), "Middle")
              ELSE m1
    IN  ClickEdge(m2, "right", Bit(Byte(buffer, 0), 1), "Right")

\* click blocks whose middle block, when the scroll button has a program,
\* still remembers the level of the middle bit
BasicButtonsMiddleLevel(m, buffer) ==
    LET middle == Bit(Byte(buffer, 0), 2)
        middle_button_state_token ==
            GetStateToken(m, TokenizeButton(m.button_configs["scroll_button"]))
        m1 == ClickEdge(m, "left", Bit(Byte(buffer, 0), 0), "Left")
        m2 == IF /\ middle_button_state_token.down = <<>>
                 /\ middle_button_state_token.repeat = <<>>
                 /\ middle_button_state_token.up = <<>>
              THEN ClickEdge(m1, "middle", middle, "Middle")
              ELSE [m1 EXCEPT !.click_state["middle"] = middle]
    IN  ClickEdge(m2, "right", Bit(Byte(buffer, 0), 1), "Right")

\* the "button emulation" block of basic_emulation
BasicButtons(m, buffer) ==
    LET left == Bit(Byte(buffer, 0), 0)
        right == Bit(Byte(buffer, 0), 1)
        middle == Bit(Byte(buffer, 0), 2)
        middle_button_state_token ==
            GetStateToken(m, TokenizeButton(m.button_configs["scroll_button"]))
        m1 == ClickEdge(m, "left", left, "Left")
        m2 == IF /\ middle_button_state_token.down = <<>>
                 /\ middle_button_state_token.repeat = <<>>
                 /\ middle_button_state_token.up = <<>>
              THEN ClickEdge(m1, "middle", middle, "Middle")
              ELSE m1
    IN  ClickEdge(m2, "right", right, "Right")

BasicMovement(m, buffer) ==
    [m EXCEPT !.moved = <<Signed(Byte(buffer, 3)), Signed(Byte(buffer, 5))>>,
              !.notified = TRUE]

\* a wheel block that scrolls on every non-zero wheel byte, by its sign
BasicWheelAnyNotch(m, buffer) ==
    IF Byte(buffer, 7) = 0 THEN m
    ELSE [m EXCEPT !.injected =
             Append(@, <<"mouse_scroll_y",
                         IF Byte(buffer, 7) < 128 THEN -1 ELSE 1>>)]

\* the "wheel emulation" block of basic_emulation
BasicWheel(m, buffer) ==
    LET m1 == IF Byte(buffer, 7) = 1
              THEN [m EXCEPT !.injected = Append(@, <<"mouse_scroll_y", -1>>)]
              ELSE m
    IN  IF Byte(buffer, 7) = 255
        THEN [m1 EXCEPT !.injected = Append(@, <<"mouse_scroll_y", 1>>)]
        ELSE m1

BasicEmulation(m, buffer) ==
    BasicWheel(BasicMovement(BasicButtons(m, buffer), buffer), buffer)

\* the ButtonState decoded from the status bytes
DecodeButtons(buffer) ==
    [b \in Buttons |->
        CASE b = "back_button" -> Bit(Byte(buffer, 0), 3)
          [] b = "forwards_button" -> Bit(Byte(buffer, 0), 4)
          [] b = "button_1" -> Bit(Byte(buffer, 0), 5)
          [] b = "button_2" -> Bit(Byte(buffer, 0), 6)
          [] b = "button_3" -> Bit(Byte(buffer, 0), 7)
          [] b = "hat_top" -> Bit(Byte(buffer, 1), 0)
          [] b = "hat_bottom" -> Bit(Byte(buffer, 1), 1)
          [] b = "hat_left" -> Bit(Byte(buffer, 1), 2)
          [] b = "hat_right" -> Bit(Byte(buffer, 1), 3)
          [] b = "precision_aim" -> Bit(Byte(buffer, 1), 4)
          [] b = "thumb_clockwise" -> Bit(Byte(buffer, 1), 5)
          [] b = "thumb_anticlockwise" -> Bit(Byte(buffer, 1), 6)
          [] b = "scroll_button" -> Bit(Byte(buffer, 2), 3)
          [] b = "left_actionlock" -> Bit(Byte(buffer, 2), 4)
          [] b = "right_actionlock" -> Bit(Byte(buffer, 2), 5)]

\* what one emulation_worker_rx.send call puts in the channel
Sent(b, kind, vec) == [vec |-> vec, button |-> b, kind |-> kind]

\* a button evaluation that sends down or up on the level of the button
EmulateButtonLevel(m, b, previous_button_state, current_button_state) ==
    LET state_token == GetStateToken(m, TokenizeButton(m.button_configs[b]))
    IN  [ sent |-> IF current_button_state
                   THEN << Sent(b, "down", state_token.down) >>
                   ELSE IF previous_button_state
                        THEN << Sent(b, "up", state_token.up) >>
                        ELSE << >>,
          timer |-> TimerAfterCheck(m.button_timer[b]) ]

\* a button evaluation that repeats in every cycle in which the button is held
EmulateButtonNoTimer(m, b, previous_button_state, current_button_state) ==
    LET state_token == GetStateToken(m, TokenizeButton(m.button_configs[b]))
        edge == IF current_button_state # previous_button_state
                THEN IF current_button_state
                     THEN << Sent(b, "down", state_token.down) >>
                     ELSE << Sent(b, "up", state_token.up) >>
                ELSE << >>
    IN  [ sent |-> IF current_button_state
                   THEN Append(edge, Sent(b, "repeat", state_token.repeat))
                   ELSE edge,
          timer |-> TimerAfterCheck(m.button_timer[b]) ]

\* a button evaluation that tests the timer before the edge
EmulateButtonRepeatFirst(m, b, previous_button_state, current_button_state) ==
    LET state_token == GetStateToken(m, TokenizeButton(m.button_configs[b]))
        edge == IF current_button_state # previous_button_state
                THEN IF current_button_state
                     THEN << Sent(b, "down", state_token.down) >>
                     ELSE << Sent(b, "up", state_token.up) >>
                ELSE << >>
        fired == TimerCheck(m.button_timer[b])
    IN  [ sent |-> IF fired /\ current_button_state
                   THEN << Sent(b, "repeat", state_token.repeat) >> \o edge
                   ELSE edge,
          timer |-> TimerAfterCheck(m.button_timer[b]) ]

\* emulate_button_config_token for button b: the sends it makes, in order,
\* and what its timer is afterwards
EmulateButtonConfigToken(m, b, previous_button_state, current_button_state) ==
    LET state_token == GetStateToken(m, TokenizeButton(m.button_configs[b]))
        edge == IF current_button_state # previous_button_state
                THEN IF current_button_state
                     THEN << Sent(b, "down", state_token.down) >>
                     ELSE << Sent(b, "up", state_token.up) >>
                ELSE << >>
        fired == TimerCheck(m.button_timer[b])
    IN  [ sent |-> IF fired /\ current_button_state
                   THEN Append(edge, Sent(b, "repeat", state_token.repeat))
                   ELSE edge,
          timer |-> TimerAfterCheck(m.button_timer[b]) ]

RECURSIVE MappedSendsReversed(_, _, _)
\* the 15 calls made from the last button to the first
MappedSendsReversed(m, button_state, i) ==
    IF i > Len(ButtonOrder) THEN << >>
    ELSE MappedSendsReversed(m, button_state, i + 1)
         \o EmulateButtonConfigToken(m, ButtonOrder[i],
                                     m.button_state[ButtonOrder[i]],
                                     button_state[ButtonOrder[i]]).sent

RECURSIVE MappedSends(_, _, _)
\* the sends of the 15 emulate_button_config_token calls, from the i-th on,
\* in call order
MappedSends(m, button_state, i) ==
    IF i > Len(ButtonOrder) THEN << >>
    ELSE EmulateButtonConfigToken(m, ButtonOrder[i],
                                  m.button_state[ButtonOrder[i]],
                                  button_state[ButtonOrder[i]]).sent
         \o MappedSends(m, button_state, i + 1)

MappedEmulation(m, buffer) ==
    LET button_state == DecodeButtons(buffer)
    IN  [m EXCEPT
            !.sent = @ \o MappedSends(m, button_state, 1),
            !.button_timer = [b \in Buttons |->
                EmulateButtonConfigToken(m, b, m.button_state[b],
                                         button_state[b]).timer],
            !.button_state = button_state]

\* Mapper::emulate after the configuration check
EmulateBody(m, buffer) ==
    MappedEmulation(BasicEmulation(UpdateMode(m, buffer), buffer), buffer)

\* a mapped-only pass that runs basic emulation on the buffer as well
EmulateOnlyMappedWithBasic(m, buffer) ==
    MappedEmulation(BasicEmulation(m, buffer), buffer)

\* Mapper::emulate_only_mapped after the configuration check
EmulateOnlyMappedBody(m, buffer) == MappedEmulation(m, buffer)

PassBody(m, buffer, pass) ==
    IF pass = "full" THEN EmulateBody(m, buffer)
    ELSE EmulateOnlyMappedBody(m, buffer)

----------------------------------------------------------------------------
(* The two workers of a Mapper *)

\* emulate_token_vec: the Enigo calls one token makes
EmulateToken(token) ==
    CASE token[1] = "Sequence" -> <<"key_click", token[2]>>
      [] token[1] = "Unicode" -> <<"key_sequence", token[2]>>
      [] token[1] = "KeyUp" -> <<"key_up", token[2]>>
      [] token[1] = "KeyDown" -> <<"key_down", token[2]>>
      [] token[1] = "MouseUp" /\ token[2] \in {"Left", "Middle", "Right"} ->
            <<"mouse_up", token[2]>>
      [] token[1] = "MouseDown" /\ token[2] \in {"Left", "Middle", "Right"} ->
            <<"mouse_down", token[2]>>
      [] token[1] = "Click" /\ token[2] \in {"Left", "Middle", "Right"} ->
            <<"mouse_click", token[2]>>
      [] token[1] = "Click" /\ token[2] = "ScrollUp" -> <<"mouse_scroll_y", 1>>
      [] token[1] = "Click" /\ token[2] = "ScrollDown" -> <<"mouse_scroll_y", -1>>
      [] token[1] = "Click" /\ token[2] = "ScrollLeft" -> <<"mouse_scroll_x", 1>>
      [] token[1] = "Click" /\ token[2] = "ScrollRight" -> <<"mouse_scroll_x", -1>>
      [] OTHER -> <<"none", token[2]>>

\* Sender::send on the unbounded mpsc channel
ChannelSend(q, entries) == q \o entries

\* a channel handing out the newest message first
ChannelRecvNewest(q) == [item |-> q[Len(q)], rest |-> SubSeq(q, 1, Len(q) - 1)]

\* Receiver::recv: the oldest message and the rest
ChannelRecv(q) == [item |-> Head(q), rest |-> Tail(q)]

NoEntry == [vec |-> <<>>, button |-> "none", kind |-> "none"]

IdleExec ==
    [busy |-> FALSE, cur |-> NoEntry, pos |-> 0, last |-> <<"none", "">>,
     thread |-> "none"]

\* CondMutex::new((0, 0)) with the worker blocked in wait_poisoned
IdleAgg ==
    [pc |-> "waiting", val |-> <<0, 0>>, last |-> <<"none", 0, 0>>,
     thread |-> "none"]

\* the two workers as Mapper::new spawns them; thread is a history field
\* (none before the spawn, running, ended once the closure has returned)
SpawnedExec == [IdleExec EXCEPT !.thread = "running"]
SpawnedAgg == [IdleAgg EXCEPT !.thread = "running"]

\* an accumulator overwritten by each report
AccumulateOverwrite(acc, moved) == moved

\* the += of basic_emulation under lock_poisoned
Accumulate(acc, moved) == <<acc[1] + moved[1], acc[2] + moved[2]>>

----------------------------------------------------------------------------
VARIABLES
    device_list,      \* the Active Registry: HashSet<String>
    config,           \* mouses_config.config: BTreeMap<String, ButtonConfigs>
    state_id,         \* mouses_config_state_id
    poller_pending,   \* watch_config_update between update() and fetch_add
    host,             \* DeviceListUpdate messages in the host channel
    client,           \* run_connection: the request in hand, the data sent
    locks,            \* owners of the two mutexes, places of their holders
    kernel,           \* session thread -> what it did to the kernel driver
    pc,               \* session thread -> where it is
    serial_number,    \* session thread -> its serial
    mapper,           \* session thread -> its Mapper
    buffer,           \* session thread -> the 8-byte read buffer
    queue,            \* session thread -> emulation worker channel
    exec,             \* session thread -> emulation worker
    movement,         \* session thread -> mouse_relative_movement_condmutex
    agg,              \* session thread -> mouse movement worker
    \* history variables, read by the properties only
    last_pass,        \* kind of the last completed pass: none, full, timeout
    passes,           \* completed passes and full passes, each counted up to 2
    prev_buffer,      \* the buffer before the read of the last pass
    expect,           \* sequences sent and not yet completely executed
    motion,           \* displacement ledger of the reports read: see NoMotion
    watch,            \* per button stopwatches: see WatchAdvance, WatchPass
    fresh,            \* the pass in progress started after the last store write
    track             \* which history variables this specification records

vars == << device_list, config, state_id, poller_pending, host, client, locks, kernel,
           pc,
           serial_number, mapper, buffer, queue, exec, movement, agg,
           last_pass, passes, prev_buffer, expect, motion, watch, fresh,
           track >>

registry_vars == << device_list, host >>
store_vars == << config, state_id, poller_pending >>
worker_vars == << queue, exec, movement, agg, expect, motion >>
mapper_vars == << mapper, buffer, last_pass, passes, prev_buffer, watch, fresh >>

\* the buttons basic emulation presses and releases on the Mapper's Enigo
ClickNames == {"Left", "Right", "Middle"}

\* the mouse_down / mouse_up calls of one pass for one button, in call order
ClickCalls(m, name) ==
    LET of_name(call) == call[1] \in {"mouse_down", "mouse_up"} /\ call[2] = name
        calls == SelectSeq(m.injected, of_name)
    IN  [i \in 1..Len(calls) |-> calls[i][1]]

\* the last call made for a button: the last of this pass, or the one before
LastClick(before, calls) ==
    IF calls = <<>> THEN before ELSE calls[Len(calls)]

\* the buttons whose stopwatches are kept
Watched == {"back_button"}

NoWatch ==
    [ since_repeat |-> [b \in Watched |-> MaxGap],
      repeat_gap   |-> [b \in Watched |-> MaxGap],
      held_for     |-> [b \in Watched |-> 0],
      repeats      |-> [b \in Watched |-> 0],
      pressed      |-> [b \in Watched |-> EmptyStateToken],
      up_sent      |-> [b \in Watched |-> <<>>],
      up_owed      |-> [b \in Watched |-> <<>>],
      click_before |-> [n \in ClickNames |-> "none"],
      click_last   |-> [n \in ClickNames |-> "none"] ]

NoPasses == [all |-> 0, full |-> 0]

\* byte b read as an 8 bit two's complement number
TwosComplement(b) == ((b + 128) % 256) - 128

\* the displacement ledger: owed is the displacement reported by the full
\* passes so far less the displacement emitted so far; batch is the
\* displacement reported by the full passes since the last drain; taken is
\* the batch at the last drain
NoMotion == [ owed |-> <<0, 0>>, batch |-> <<0, 0>>, taken |-> <<0, 0>> ]

\* a pass has processed report buf
MotionRead(l, buf, pass) ==
    IF pass = "full"
    THEN LET dx == TwosComplement(Byte(buf, 3))
             dy == TwosComplement(Byte(buf, 5))
         IN  [l EXCEPT !.owed = <<@[1] + dx, @[2] + dy>>,
                       !.batch = <<@[1] + dx, @[2] + dy>>]
    ELSE l

\* the movement worker has drained the accumulator
MotionDrained(l) ==
    [l EXCEPT !.taken = l.batch, !.batch = <<0, 0>>]

\* the movement worker has emitted the displacement val
MotionEmitted(l, val) ==
    [l EXCEPT !.owed = <<@[1] - val[1], @[2] - val[2]>>]

CountPass(n, pass) ==
    [ all |-> Min(2, n.all + 1),
      full |-> IF pass = "full" THEN Min(2, n.full + 1) ELSE n.full ]

\* both mutexes free; the watcher between two devices of a scan (found is
\* the serial it has read last); the command handler of run_connection
\* waiting for a message
NoLocks ==
    [ device_list_mutex |-> "free", mouses_config_mutex |-> "free",
      watcher |-> "tick", found |-> "S1", handler |-> "recv" ]

\* run_connection before any command: no request in hand and nothing sent
\* on client_dualchannel
NoClient == [request |-> "none", data |-> << >>]

\* before any session exists
Boot ==
    /\ device_list = {}
    /\ config \in {<<>>, "S1" :> ConfigsA}
    /\ state_id = 0
    /\ poller_pending = FALSE
    /\ host = 0
    /\ client = NoClient
    /\ locks = NoLocks
    /\ kernel = [t \in Threads |-> "none"]
    /\ pc = [t \in Threads |-> "free"]
    /\ serial_number = [t \in Threads |-> "S1"]
    /\ mapper = [t \in Threads |-> NewMapper(0, DefaultConfigs)]
    /\ buffer = [t \in Threads |-> ZeroBuffer]
    /\ queue = [t \in Threads |-> <<>>]
    /\ exec = [t \in Threads |-> IdleExec]
    /\ movement = [t \in Threads |-> <<0, 0>>]
    /\ agg = [t \in Threads |-> IdleAgg]
    /\ last_pass = [t \in Threads |-> "none"]
    /\ passes = [t \in Threads |-> NoPasses]
    /\ prev_buffer = [t \in Threads |-> ZeroBuffer]
    /\ expect = [t \in Threads |-> <<>>]
    /\ motion = [t \in Threads |-> NoMotion]
    /\ watch = [t \in Threads |-> NoWatch]
    /\ fresh = [t \in Threads |-> TRUE]

Init == Boot /\ track = {}

\* a history variable changes only in the specifications that record it
Track(name, old, new) == IF name \in track THEN new ELSE old

----------------------------------------------------------------------------
(* History bookkeeping (no program state) *)

Repeated(m, b) ==
    \E i \in 1..Len(m.sent) : m.sent[i].button = b /\ m.sent[i].kind = "repeat"

\* the Macro Program that m's evaluation of button b takes its sequences from
ProgramInUse(m, b) == GetStateToken(m, TokenizeButton(m.button_configs[b]))

\* the sequence of the given kind that the last pass of m sent for button b
\* (the empty sequence if it sent none)
SentFor(m, b, kind) ==
    IF \E i \in 1..Len(m.sent) : m.sent[i].button = b /\ m.sent[i].kind = kind
    THEN LET i == CHOOSE i \in 1..Len(m.sent) :
                      m.sent[i].button = b /\ m.sent[i].kind = kind
         IN  m.sent[i].vec
    ELSE <<>>

\* d milliseconds pass while the read blocks
WatchAdvance(w, d, buf) ==
    [w EXCEPT
        !.since_repeat = Track("gap", @,
            [b \in Watched |-> Min(MaxGap, w.since_repeat[b] + d)]),
        !.held_for = Track("hold", @,
            [b \in Watched |->
                IF DecodeButtons(buf)[b] THEN Min(MaxHold, w.held_for[b] + d)
                ELSE 0])]

\* a pass has completed: m holds what it sent; before/after are the reports
\* decoded by the previous pass and by this one
WatchPass(w, m, before, after) ==
    LET was == DecodeButtons(before)
        is == DecodeButtons(after)
    IN  [ since_repeat |-> Track("gap", w.since_repeat,
              [b \in Watched |-> IF Repeated(m, b) THEN 0 ELSE w.since_repeat[b]]),
          repeat_gap |-> Track("gap", w.repeat_gap,
              [b \in Watched |->
                  IF Repeated(m, b) THEN w.since_repeat[b] ELSE w.repeat_gap[b]]),
          held_for |-> Track("hold", w.held_for,
              [b \in Watched |->
                  IF is[b] THEN (IF was[b] THEN w.held_for[b] ELSE 0) ELSE 0]),
          repeats |-> Track("hold", w.repeats,
              [b \in Watched |->
                  IF is[b] /\ (was[b] => w.held_for[b] < MaxHold)
                  THEN (IF was[b] THEN w.repeats[b] ELSE 0)
                       + (IF Repeated(m, b) THEN 1 ELSE 0)
                  ELSE 0]),
          pressed |-> Track("press", w.pressed,
              [b \in Watched |->
                  IF is[b] /\ ~was[b] THEN ProgramInUse(m, b) ELSE w.pressed[b]]),
          up_sent |-> Track("press", w.up_sent,
              [b \in Watched |->
                  IF was[b] /\ ~is[b] THEN SentFor(m, b, "up") ELSE w.up_sent[b]]),
          up_owed |-> Track("press", w.up_owed,
              [b \in Watched |->
                  IF was[b] /\ ~is[b] THEN w.pressed[b].up ELSE w.up_owed[b]]),
          click_before |-> Track("click", w.click_before, w.click_last),
          click_last |-> Track("click", w.click_last,
              [n \in ClickNames |-> LastClick(w.click_last[n], ClickCalls(m, n))]) ]

----------------------------------------------------------------------------
(* The session thread: run_device and the teardown in listening_new_device *)

InRunDevice == {"start", "new", "loop", "reload_full", "reload_timeout"}

\* an epoch test that never sees a change
ConfigNeverChanges(m, mouses_config_state_id) == FALSE

\* Mapper::config_has_change
ConfigHasChange(m, mouses_config_state_id) ==
    m.last_mouses_config_state_id # mouses_config_state_id

\* the rest of emulate / emulate_only_mapped once the programs are settled
FinishPass(t, m, buf, pass) ==
    \E final \in {PassBody(m, buf, pass)} :
    LET acc == Accumulate(movement[t], final.moved)
    IN  /\ Len(queue[t]) + Len(final.sent) <= MaxQueue
        /\ Abs(acc[1]) <= MaxAcc /\ Abs(acc[2]) <= MaxAcc
        /\ mapper' = [mapper EXCEPT ![t] = final]
        /\ queue' = [queue EXCEPT ![t] = ChannelSend(@, final.sent)]
        /\ expect' = Track("expect", expect, [expect EXCEPT ![t] = @ \o final.sent])
        /\ movement' = [movement EXCEPT ![t] = acc]
        /\ motion' = Track("motion", motion,
                           [motion EXCEPT ![t] = MotionRead(@, buf, pass)])
        /\ agg' = [agg EXCEPT ![t].pc =
                      IF final.notified /\ @ = "waiting" THEN "woken" ELSE @]
        /\ last_pass' = Track("pass", last_pass, [last_pass EXCEPT ![t] = pass])
        /\ passes' = Track("pass", passes, [passes EXCEPT ![t] = CountPass(@, pass)])
        /\ pc' = [pc EXCEPT ![t] = "loop"]
        /\ UNCHANGED exec

\* read_interrupt returned: config_has_change, then either the whole pass or,
\* when the epoch moved, the wait for the store lock
BeginCycle(t, buf, d, pass) ==
    /\ pc[t] = "loop"
    /\ \E m0 \in {AdvanceTimers(BeginPass(mapper[t]), d)},
          w \in {WatchAdvance(watch[t], d, buffer[t])} :
        LET m1 == [m0 EXCEPT !.last_mouses_config_state_id = state_id]
        IN
        /\ prev_buffer' = Track("pass", prev_buffer,
                                [prev_buffer EXCEPT ![t] = buffer[t]])
        /\ buffer' = [buffer EXCEPT ![t] = buf]
        /\ fresh' = Track("fresh", fresh, [fresh EXCEPT ![t] = ~poller_pending])
        /\ IF ConfigHasChange(m0, state_id)
           THEN /\ mapper' = [mapper EXCEPT ![t] = m1]
                /\ pc' = [pc EXCEPT ![t] = "reload_" \o pass]
                /\ watch' = [watch EXCEPT ![t] = w]
                /\ UNCHANGED << last_pass, passes, worker_vars >>
           ELSE /\ FinishPass(t, m1, buf, pass)
                /\ watch' = [watch EXCEPT ![t] =
                                WatchPass(w, mapper'[t], buffer[t], buf)]
        /\ UNCHANGED << track, kernel, locks, client,
                        registry_vars, store_vars, serial_number >>

\* Ok(_) => mapper.emulate(&buffer)
ReadOk(t, report, d) == BeginCycle(t, report, d, "full")

\* a timeout arm that calls emulate
ReadTimedOutFull(t) == BeginCycle(t, buffer[t], ReadTimeout, "full")

\* Err(rusb::Error::Timeout) => mapper.emulate_only_mapped(&buffer)
ReadTimedOut(t) == BeginCycle(t, buffer[t], ReadTimeout, "timeout")

\* the reload of emulate / emulate_only_mapped, then the rest of the pass;
\* config[&serial_number] panics when the row is gone
Reload(t) ==
    /\ pc[t] \in {"reload_full", "reload_timeout"}
    /\ IF ~HasRow(config, serial_number[t])
       THEN /\ pc' = [pc EXCEPT ![t] = "panicked"]
            /\ mapper' = [mapper EXCEPT ![t] = NewMapper(0, DefaultConfigs)]
            /\ UNCHANGED << worker_vars, last_pass, passes, watch >>
       ELSE LET m == [mapper[t] EXCEPT !.button_configs =
                          config[serial_number[t]]]
                pass == IF pc[t] = "reload_full" THEN "full" ELSE "timeout"
            IN  /\ FinishPass(t, m, buffer[t], pass)
                /\ watch' = [watch EXCEPT ![t] =
                      WatchPass(@, mapper'[t], prev_buffer[t], buffer[t])]
    /\ UNCHANGED << track, kernel, locks, client,
                    registry_vars, store_vars, serial_number, buffer,
                    prev_buffer, fresh >>

\* the Mapper and the buffer of a session that has left run_device
NoMapper == NewMapper(0, DefaultConfigs)

\* run_device's local has_kernel_driver
has_kernel_driver(t) == kernel[t] # "none"

\* Err(err) => break, attach_kernel_driver if has_kernel_driver, and
\* run_device returns (its Mapper is dropped)
ReadErr(t) ==
    /\ pc[t] = "loop"
    /\ pc' = [pc EXCEPT ![t] = "remove"]
    /\ mapper' = [mapper EXCEPT ![t] = NoMapper]
    /\ buffer' = [buffer EXCEPT ![t] = ZeroBuffer]
    /\ kernel' = [kernel EXCEPT ![t] = IF has_kernel_driver(t) THEN "reattached" ELSE @]
    /\ UNCHANGED << track, locks, client, registry_vars, store_vars, serial_number, last_pass, passes,
                    prev_buffer, watch, fresh, worker_vars >>

\* kernel_driver_active(iface) has answered active, and Ok(true) is followed
\* by detach_kernel_driver
Detached(active) == IF active THEN "detached" ELSE "none"

\* run_device returns without a session: the kernel driver test and the
\* claim came out as told
StartRefused(t, active) ==
    /\ pc[t] = "start"
    /\ pc' = [pc EXCEPT ![t] = "remove"]
    /\ kernel' = [kernel EXCEPT ![t] = Detached(active)]
    /\ UNCHANGED << track, locks, client, registry_vars, store_vars, serial_number, mapper_vars,
                    worker_vars >>

\* find_device, the descriptors or the claim failed (no kernel driver was
\* active): run_device returns
StartFail(t) == StartRefused(t, FALSE)

\* the interface is claimed after the kernel driver test: DeviceListUpdate
\* is sent and Mapper::new loads the epoch
StartClaimed(t, active) ==
    /\ pc[t] = "start"
    /\ host < MaxHost
    /\ host' = host + 1
    /\ mapper' = [mapper EXCEPT ![t].last_mouses_config_state_id = state_id]
    /\ pc' = [pc EXCEPT ![t] = "new"]
    /\ kernel' = [kernel EXCEPT ![t] = Detached(active)]
    /\ UNCHANGED << track, locks, client, device_list, store_vars, serial_number, buffer, last_pass,
                    passes, prev_buffer, watch, fresh, worker_vars >>

\* the interface is claimed (no kernel driver was active)
StartOk(t) == StartClaimed(t, FALSE)

\* Mapper::new reads the row (and panics when there is none), spawns the two
\* workers and builds the Mapper
MapperNew(t) ==
    /\ pc[t] = "new"
    /\ IF ~HasRow(config, serial_number[t])
       THEN /\ pc' = [pc EXCEPT ![t] = "panicked"]
            /\ mapper' = [mapper EXCEPT ![t] = NewMapper(0, DefaultConfigs)]
            /\ UNCHANGED << exec, agg >>
       ELSE /\ pc' = [pc EXCEPT ![t] = "loop"]
            /\ mapper' = [mapper EXCEPT ![t] =
                  NewMapper(@.last_mouses_config_state_id,
                            config[serial_number[t]])]
            /\ exec' = Track("thread", exec, [exec EXCEPT ![t] = SpawnedExec])
            /\ agg' = Track("thread", agg, [agg EXCEPT ![t] = SpawnedAgg])
    /\ UNCHANGED << track, kernel, locks, client,
                    registry_vars, store_vars, serial_number, buffer, last_pass,
                    passes, prev_buffer, watch, fresh, queue, movement, expect, motion >>

\* a teardown that leaves the serial in the registry
SessionRemoveKeep(t) ==
    /\ pc[t] = "remove"
    /\ pc' = [pc EXCEPT ![t] = "notify"]
    /\ UNCHANGED << track, kernel, locks, client,
                    registry_vars, store_vars, serial_number, mapper_vars,
                    worker_vars >>

\* device_list_mutex.lock_poisoned().remove(&serial_number)
SessionRemove(t) ==
    /\ pc[t] = "remove"
    /\ device_list' = device_list \ {serial_number[t]}
    /\ pc' = [pc EXCEPT ![t] = "notify"]
    /\ UNCHANGED << track, kernel, locks, client,
                    host, store_vars, serial_number, mapper_vars, worker_vars >>

\* host.send(Message::DeviceListUpdate), and the thread ends
SessionNotify(t) ==
    /\ pc[t] = "notify"
    /\ host < MaxHost
    /\ host' = host + 1
    /\ pc' = [pc EXCEPT ![t] = "done"]
    /\ UNCHANGED << track, kernel, locks, client,
                    device_list, store_vars, serial_number, mapper_vars,
                    worker_vars >>

----------------------------------------------------------------------------
(* The hotplug watcher, the store writers and the device-list publisher *)

\* the registry test answering "not connected" for every serial
ListedNever(list, serial) == FALSE

\* device_list.get(&serial_number) is not None
Listed(list, serial) == serial \in list

\* the row of serial has been written: the cycles of its session that have
\* started are no longer known to work with the store's row
Stale(serial) ==
    [t \in Threads |-> IF serial_number[t] = serial THEN FALSE ELSE fresh[t]]

\* one device of a scan whose serial could be read: under the registry lock,
\* a serial that is not listed gets a default row if it has none, is listed
\* and gets a session thread
WatcherVisit(serial, t) ==
    /\ IF Listed(device_list, serial)
       THEN UNCHANGED << device_list, config, pc, serial_number, fresh >>
       ELSE /\ pc[t] = "free"
            /\ \A u \in Threads : u < t => pc[u] # "free"
            /\ config' = IF ~HasRow(config, serial)
                         THEN Insert(config, serial, DefaultConfigs)
                         ELSE config
            /\ fresh' = IF ~HasRow(config, serial)
                        THEN Track("fresh", fresh, Stale(serial)) ELSE fresh
            /\ device_list' = device_list \cup {serial}
            /\ pc' = [pc EXCEPT ![t] = "start"]
            /\ serial_number' = [serial_number EXCEPT ![t] = serial]
    /\ UNCHANGED << track, kernel, locks, client,
                    state_id, poller_pending, host, mapper, buffer, last_pass,
                    passes, prev_buffer, watch, worker_vars >>

\* watch_config_update: update() found an external change of one row; the
\* store lock is released before the epoch is bumped
PollerUpdate(serial, row) ==
    /\ ~poller_pending
    /\ state_id < MaxEpoch
    /\ HasRow(config, serial) => row # config[serial]
    /\ config' = Insert(config, serial, row)
    /\ poller_pending' = TRUE
    /\ fresh' = Track("fresh", fresh, Stale(serial))
    /\ UNCHANGED << track, kernel, locks, client,
                    state_id, registry_vars, pc, serial_number, mapper, buffer,
                    last_pass, passes, prev_buffer, watch, worker_vars >>

\* watch_config_update: update() found that a row was deleted externally
PollerRemove(serial) ==
    /\ ~poller_pending
    /\ state_id < MaxEpoch
    /\ HasRow(config, serial)
    /\ config' = Remove(config, serial)
    /\ poller_pending' = TRUE
    /\ fresh' = Track("fresh", fresh, Stale(serial))
    /\ UNCHANGED << track, kernel, locks, client,
                    state_id, registry_vars, pc, serial_number, mapper, buffer,
                    last_pass, passes, prev_buffer, watch, worker_vars >>

\* watch_config_update: mouses_config_state_id.fetch_add(1)
PollerBump ==
    /\ poller_pending
    /\ state_id' = state_id + 1
    /\ poller_pending' = FALSE
    /\ UNCHANGED << track, kernel, locks, client,
                    config, registry_vars, pc, serial_number, mapper_vars,
                    worker_vars >>

\* Commands::DeviceConfig: insert and fetch_add under the store lock
ClientDeviceConfig(serial, row) ==
    /\ state_id + (IF poller_pending THEN 1 ELSE 0) < MaxEpoch
    /\ config' = Insert(config, serial, row)
    /\ state_id' = state_id + 1
    /\ fresh' = Track("fresh", fresh, Stale(serial))
    /\ UNCHANGED << track, kernel, locks, client,
                    poller_pending, registry_vars, pc, serial_number, mapper,
                    buffer, last_pass, passes, prev_buffer, watch, worker_vars >>

\* DeviceConfig::new(serial_number, config)
DeviceConfigData(serial, data) ==
    [command |-> "DeviceConfig", serial_number |-> serial, config |-> data]

\* a handler that answers for a serial without a row with the default list
RequestDeviceConfigDefault(serial) ==
    /\ Len(client.data) < MaxClient
    /\ client' = [request |-> serial,
                  data |-> Append(client.data,
                      DeviceConfigData(serial,
                          ToConfig(IF HasRow(config, serial) THEN config[serial]
                                   ELSE DefaultConfigs)))]
    /\ UNCHANGED << track, kernel, locks, registry_vars, store_vars, pc, serial_number,
                    mapper_vars, worker_vars >>

\* Commands::RequestDeviceConfig: under the store lock, the row of the
\* serial, if there is one, is sent to the client
RequestDeviceConfig(serial) ==
    /\ HasRow(config, serial) => Len(client.data) < MaxClient
    /\ client' = [request |-> serial,
                  data |-> IF HasRow(config, serial)
                           THEN Append(client.data,
                                    DeviceConfigData(serial, ToConfig(config[serial])))
                           ELSE client.data]
    /\ UNCHANGED << track, kernel, locks, registry_vars, store_vars, pc, serial_number,
                    mapper_vars, worker_vars >>

\* the client takes the oldest Data message from its end of the channel
ClientReceive ==
    /\ client.data # << >>
    /\ client' = [client EXCEPT !.data = Tail(@)]
    /\ UNCHANGED << track, kernel, locks, registry_vars, store_vars, pc, serial_number,
                    mapper_vars, worker_vars >>

\* run_connection: Message::DeviceListUpdate is received and the list sent
PublishDeviceList ==
    /\ host > 0
    /\ host' = host - 1
    /\ UNCHANGED << track, kernel, locks, client,
                    device_list, store_vars, pc, serial_number, mapper_vars,
                    worker_vars >>

----------------------------------------------------------------------------
(* The emulation worker and the mouse movement worker of thread t's Mapper *)

session_vars == << registry_vars, store_vars, pc, serial_number, mapper_vars >>

\* while let Ok(token_vec) = emulation_worker_tx.recv()
ExecRecv(t) ==
    /\ ~exec[t].busy
    /\ queue[t] # <<>>
    /\ exec' = [exec EXCEPT ![t].busy = TRUE,
                            ![t].cur = ChannelRecv(queue[t]).item,
                            ![t].pos = 0]
    /\ queue' = [queue EXCEPT ![t] = ChannelRecv(queue[t]).rest]
    /\ UNCHANGED << track, kernel, locks, client,
                    session_vars, movement, agg, expect, motion >>

\* emulate_token_vec: the next token of the sequence
ExecToken(t) ==
    /\ exec[t].busy
    /\ exec[t].pos < Len(exec[t].cur.vec)
    /\ exec' = [exec EXCEPT ![t].pos = @ + 1,
                            ![t].last = EmulateToken(exec[t].cur.vec[exec[t].pos + 1])]
    /\ UNCHANGED << track, kernel, locks, client,
                    session_vars, queue, movement, agg, expect, motion >>

\* emulate_token_vec returns
ExecDone(t) ==
    /\ exec[t].busy
    /\ exec[t].pos = Len(exec[t].cur.vec)
    /\ exec' = [exec EXCEPT ![t].busy = FALSE, ![t].cur = NoEntry, ![t].pos = 0]
    /\ expect' = Track("expect", expect,
                       [expect EXCEPT ![t] = IF @ = <<>> THEN @ ELSE Tail(@)])
    /\ UNCHANGED << track, kernel, locks, client,
                    session_vars, queue, movement, agg, motion >>

\* the Mapper of thread t, and with it the sending end of the channel, has
\* been dropped
MapperDropped(t) == pc[t] \in {"panicked", "remove", "notify", "done"}

\* emulation_worker_tx.recv() returns Err (the channel is empty and its
\* sender dropped): the while let ends and with it the thread
ExecEnd(t) ==
    /\ exec[t].thread = "running"
    /\ ~exec[t].busy
    /\ queue[t] = <<>>
    /\ MapperDropped(t)
    /\ exec' = [exec EXCEPT ![t].thread = "ended"]
    /\ UNCHANGED << track, kernel, locks, client,
                    session_vars, queue, movement, agg, expect, motion >>

\* a drain that copies the accumulator and leaves it as it is
AggDrainKeep(t) ==
    /\ agg[t].pc = "woken"
    /\ agg' = [agg EXCEPT ![t].pc = "emit", ![t].val = movement[t]]
    /\ motion' = Track("motion", motion, [motion EXCEPT ![t] = MotionDrained(@)])
    /\ UNCHANGED << track, kernel, locks, client,
                    session_vars, queue, exec, expect, movement >>

\* the worker, woken, takes the lock: copy and reset of the accumulator
AggDrain(t) ==
    /\ agg[t].pc = "woken"
    /\ agg' = [agg EXCEPT ![t].pc = "emit", ![t].val = movement[t]]
    /\ movement' = [movement EXCEPT ![t] = <<0, 0>>]
    /\ motion' = Track("motion", motion, [motion EXCEPT ![t] = MotionDrained(@)])
    /\ UNCHANGED << track, kernel, locks, client, session_vars, queue, exec, expect >>

\* enigo.mouse_move_relative, then back to wait_poisoned
AggEmit(t) ==
    /\ agg[t].pc = "emit"
    /\ agg' = [agg EXCEPT ![t].pc = "waiting", ![t].val = <<0, 0>>,
                          ![t].last = <<"mouse_move_relative",
                                        agg[t].val[1], agg[t].val[2]>>]
    /\ motion' = Track("motion", motion,
            [motion EXCEPT ![t] = MotionEmitted(@, agg[t].val)])
    /\ UNCHANGED << track, kernel, locks, client,
                    session_vars, queue, exec, movement, expect >>

----------------------------------------------------------------------------
(* Specification of the watcher, the registry and the session lifecycle:   *)
(* every tick may find any serial; the mice are idle (reads time out).     *)

NextSession ==
    \/ \E serial \in Serials, t \in Threads : WatcherVisit(serial, t)
    \/ \E t \in Threads : StartFail(t)
    \/ \E t \in Threads : StartOk(t)
    \/ \E t \in Threads : MapperNew(t)
    \/ \E t \in Threads : ReadTimedOut(t)
    \/ \E t \in Threads : Reload(t)
    \/ \E t \in Threads : ReadErr(t)
    \/ \E t \in Threads : SessionRemove(t)
    \/ \E t \in Threads : SessionNotify(t)
    \/ PublishDeviceList
    \/ PollerRemove("S1")
    \/ PollerBump

SpecSession == Init /\ [][NextSession]_vars

\* C1: at no time are two Device Sessions (threads inside run_device) alive
\* for the same serial number.
C1_OneSessionPerSerial ==
    \A t1, t2 \in Threads :
        ( /\ pc[t1] \in InRunDevice
          /\ pc[t2] \in InRunDevice
          /\ serial_number[t1] = serial_number[t2] ) => t1 = t2

\* a serial is found again while its session polls, after an earlier session
\* for it has ended
C1_Witness ==
    \E t1, t2 \in Threads :
        /\ t1 # t2
        /\ serial_number[t1] = serial_number[t2]
        /\ pc[t1] = "done"
        /\ pc[t2] = "loop"
        /\ Listed(device_list, serial_number[t2])

\* The session thread goes on after run_device has returned, the registry
\* lock it waits for is released by the watcher and by the client handler,
\* and run_connection keeps receiving from the host channel.
SpecSessionFair ==
    /\ SpecSession
    /\ \A t \in Threads : WF_vars(SessionRemove(t)) /\ WF_vars(SessionNotify(t))
    /\ WF_vars(PublishDeviceList)

\* the steps of thread t's teardown
TeardownStep(t) ==
    /\ (pc[t] = "remove" /\ pc'[t] # "remove") =>
            /\ pc'[t] = "notify"
            /\ device_list' = device_list \ {serial_number[t]}
            /\ host' = host
    /\ (pc[t] = "notify" /\ pc'[t] # "notify") =>
            /\ pc'[t] = "done"
            /\ device_list' = device_list
            /\ host' = host + 1
    /\ pc[t] = "done" => pc'[t] = "done"

\* C12: a session whose run_device has returned (after a read error, or
\* because the device was not found, configured or claimed) next removes
\* its serial from the registry, then sends exactly one DeviceListUpdate and
\* ends, and it always gets there; every message in the host channel comes
\* from a claimed interface or from one teardown; once the serial is
\* removed it stays out of the registry until the watcher lists it again
\* for a new session, which it may do.
C12_EndedSessionUnlistsAndNotifies ==
    /\ [][ /\ \A t \in Threads : TeardownStep(t)
           /\ host' > host =>
                 /\ host' = host + 1
                 /\ Cardinality({ t \in Threads :
                        \/ pc[t] = "start" /\ pc'[t] = "new"
                        \/ pc[t] = "notify" /\ pc'[t] = "done" }) = 1 ]_vars
    /\ \A t \in Threads : (pc[t] = "remove") ~> (pc[t] = "done")
    /\ [](\A t \in Threads :
            ( /\ pc[t] \in {"notify", "done"}
              /\ \A u \in Threads :
                    (u # t /\ serial_number[u] = serial_number[t]) =>
                        pc[u] \in {"free", "notify", "done"} )
            => ~Listed(device_list, serial_number[t]))

\* a session has ended and sent its message, and the watcher has started a
\* new session for the same serial, which has ended too and has removed the
\* serial again
C12_Witness ==
    \E t1, t2 \in Threads :
        /\ t1 # t2
        /\ serial_number[t1] = serial_number[t2]
        /\ pc[t1] = "done"
        /\ pc[t2] = "notify"
        /\ ~Listed(device_list, serial_number[t2])

----------------------------------------------------------------------------
(* Specifications of one running session: serial S1 has been discovered,   *)
(* its interface claimed and its Mapper built from the row of the store.   *)

SerialOf(t) == IF t = 1 THEN "S1" ELSE "S2"

\* the sessions of the serials that have a row in store are in their loops,
\* each with the Mapper that Mapper::new made from its row
Running(store) ==
    LET runs(t) == t \in {1, 2} /\ HasRow(store, SerialOf(t))
    IN  /\ device_list = DOMAIN store
        /\ config = store
        /\ state_id = 0
        /\ poller_pending = FALSE
        /\ host = 0
        /\ client = NoClient
        /\ locks = NoLocks
        /\ kernel = [t \in Threads |-> "none"]
        /\ pc = [t \in Threads |-> IF runs(t) THEN "loop" ELSE "free"]
        /\ serial_number = [t \in Threads |-> SerialOf(t)]
        /\ mapper = [t \in Threads |->
                        IF runs(t) THEN NewMapper(0, store[SerialOf(t)])
                        ELSE NoMapper]
        /\ buffer = [t \in Threads |-> ZeroBuffer]
        /\ queue = [t \in Threads |-> <<>>]
        /\ exec = [t \in Threads |-> IF runs(t) THEN SpawnedExec ELSE IdleExec]
        /\ movement = [t \in Threads |-> <<0, 0>>]
        /\ agg = [t \in Threads |-> IF runs(t) THEN SpawnedAgg ELSE IdleAgg]
        /\ last_pass = [t \in Threads |-> "none"]
        /\ passes = [t \in Threads |-> NoPasses]
        /\ prev_buffer = [t \in Threads |-> ZeroBuffer]
        /\ expect = [t \in Threads |-> <<>>]
        /\ motion = [t \in Threads |-> NoMotion]
        /\ watch = [t \in Threads |-> NoWatch]
        /\ fresh = [t \in Threads |-> TRUE]

\* the emulation worker of t's Mapper has caught up with it
ExecIdle(t) == queue[t] = <<>> /\ ~exec[t].busy

\* both workers of t's Mapper have caught up with it
WorkersIdle(t) ==
    /\ queue[t] = <<>>
    /\ ~exec[t].busy
    /\ movement[t] = <<0, 0>>
    /\ agg[t].pc = "waiting"

\* reports that press and release the back button (byte 0, bit 3) in the
\* contexts Normal(0) and Normal(1)
HoldReports ==
    { <<b0, 0, b2, 0, 0, 0, 0, 0>> : b0 \in {0, 8}, b2 \in {0, 1} }

NextHold ==
    \/ \E r \in HoldReports, d \in ReadDelays :
          WorkersIdle(1) /\ ReadOk(1, r, d)
    \/ WorkersIdle(1) /\ ReadTimedOut(1)
    \/ ExecRecv(1)
    \/ ExecToken(1)
    \/ ExecDone(1)
    \/ AggDrain(1)
    \/ AggEmit(1)

InitHold ==
    /\ Running("S1" :> ConfigsA)
    /\ track = {"pass", "gap", "hold"}

SpecHold == InitHold /\ [][NextHold]_vars

\* C5: two consecutive sends of a button's repeat sequence are at least one
\* repeat period (50 ms) apart, and a held button goes on repeating whatever
\* the kind of the passes: once it has been held for a period plus the
\* longest cycle (the read timeout), its last repeat is less than that ago.
C5_RepeatCadence ==
    \A t \in Threads : \A b \in Watched :
        /\ watch[t].repeat_gap[b] >= RepeatPeriod
        /\ ( /\ pc[t] = "loop"
             /\ last_pass[t] # "none"
             /\ DecodeButtons(buffer[t])[b]
             /\ watch[t].held_for[b] >= RepeatPeriod + ReadTimeout )
           => watch[t].since_repeat[b] < RepeatPeriod + ReadTimeout

\* a timeout pass sends the repeat sequence of a button held since the
\* repeat before, which a full pass sent
C5_Witness ==
    /\ pc[1] = "loop"
    /\ last_pass[1] = "timeout"
    /\ Repeated(mapper[1], "back_button")
    /\ watch[1].repeats["back_button"] >= 2
    /\ watch[1].repeat_gap["back_button"] \in RepeatPeriod..(MaxGap - 1)
    /\ watch[1].held_for["back_button"] >= RepeatPeriod + ReadTimeout

\* C6 as the specification states it: a button held for 120 ms has sent its
\* repeat sequence exactly floor(120 / 50) = 2 times, whatever happened
\* before the press.
C6_HoldOf120GivesTwoRepeats ==
    \A t \in Threads : \A b \in Watched :
        ( /\ pc[t] = "loop"
          /\ DecodeButtons(buffer[t])[b]
          /\ watch[t].held_for[b] = 120 )
        => watch[t].repeats[b] = 120 \div RepeatPeriod

----------------------------------------------------------------------------
(* Specification of the emulation worker: the session thread of one mouse  *)
(* goes on reading and sending while the worker executes, in any           *)
(* interleaving.                                                           *)

\* the movement worker has caught up
AggIdle(t) == movement[t] = <<0, 0>> /\ agg[t].pc = "waiting"

\* reports that press and release the back button
ExecReports == { <<b0, 0, 0, 0, 0, 0, 0, 0>> : b0 \in {0, 8} }

NextExec ==
    \/ \E r \in ExecReports : AggIdle(1) /\ ReadOk(1, r, ReadTimeout)
    \/ AggIdle(1) /\ ReadTimedOut(1)
    \/ ExecRecv(1)
    \/ ExecToken(1)
    \/ ExecDone(1)
    \/ AggDrain(1)
    \/ AggEmit(1)

InitExec ==
    /\ Running("S1" :> ConfigsA)
    /\ track = {"expect"}

SpecExec == InitExec /\ [][NextExec]_vars

\* the sequence the worker is executing, if any, then those in the channel
InExecutor(t) ==
    (IF exec[t].busy THEN << exec[t].cur >> ELSE << >>) \o queue[t]

\* C2: the emulation worker executes the sequences in the order in which the
\* Mapper sent them, each exactly once and one at a time: the sequences sent
\* and not yet completely executed (expect, appended to at each send and cut
\* at its head each time an execution ends) are at all times the sequence in
\* execution followed by the channel's content, and within the sequence in
\* execution the tokens are emulated one after the other.
C2_ExecutorFifo ==
    \A t \in Threads :
        /\ expect[t] = InExecutor(t)
        /\ exec[t].busy => exec[t].pos \in 0..Len(exec[t].cur.vec)
        /\ (exec[t].busy /\ exec[t].pos > 0) =>
                exec[t].last = EmulateToken(exec[t].cur.vec[exec[t].pos])

\* the worker is in the middle of a sequence while two different sequences
\* wait in the channel
C2_Witness ==
    /\ exec[1].busy
    /\ exec[1].pos > 0
    /\ exec[1].pos < Len(exec[1].cur.vec)
    /\ Len(queue[1]) >= 2
    /\ queue[1][1] # queue[1][2]

----------------------------------------------------------------------------
(* Specification of the edges of the 15 logical buttons: reports press one *)
(* button or two, any report can follow any other, reads can time out.     *)

OneHot ==
    { <<8, 0, 0>>, <<16, 0, 0>>, <<32, 0, 0>>, <<64, 0, 0>>, <<128, 0, 0>>,
      <<0, 1, 0>>, <<0, 2, 0>>, <<0, 4, 0>>, <<0, 8, 0>>, <<0, 16, 0>>,
      <<0, 32, 0>>, <<0, 64, 0>>, <<0, 0, 8>>, <<0, 0, 16>>, <<0, 0, 32>> }

EdgeReports ==
    { <<s[1], s[2], s[3], 0, 0, 0, 0, 0>> :
        s \in OneHot \cup { <<0, 0, 0>>, <<24, 0, 0>>, <<0, 3, 1>>, <<8, 0, 12>> } }

NextEdges ==
    \/ \E r \in EdgeReports : WorkersIdle(1) /\ ReadOk(1, r, ReadTimeout)
    \/ WorkersIdle(1) /\ ReadTimedOut(1)
    \/ ExecRecv(1)
    \/ ExecToken(1)
    \/ ExecDone(1)
    \/ AggDrain(1)
    \/ AggEmit(1)

InitEdges ==
    /\ \E row \in {ConfigsA, DefaultConfigs} : Running("S1" :> row)
    /\ track = {"pass"}

SpecEdges == InitEdges /\ [][NextEdges]_vars

\* how many times the last pass sent the given kind of sequence for button b
CountSent(m, b, kind) ==
    Cardinality({ i \in 1..Len(m.sent) :
                    m.sent[i].button = b /\ m.sent[i].kind = kind })

\* 1 when the bit was clear in the report decoded before and is set now
Rise(was, is) == IF ~was /\ is THEN 1 ELSE 0

\* C3: for every logical button, a pass sends the down sequence once when the
\* button's decoded state went from false (report decoded by the pass before,
\* or no pass yet) to true and not otherwise, and the up sequence once when
\* it went from true to false and not otherwise; a pass that decodes the same
\* state again (same report, or a timeout pass) sends neither.
C3_EdgeOncePerTransition ==
    \A t \in Threads :
        (pc[t] = "loop" /\ last_pass[t] # "none") =>
            \A b \in Buttons :
                LET was == DecodeButtons(prev_buffer[t])[b]
                    is == DecodeButtons(buffer[t])[b]
                IN  /\ CountSent(mapper[t], b, "down") = Rise(was, is)
                    /\ CountSent(mapper[t], b, "up") = Rise(is, was)
                    /\ last_pass[t] = "timeout" =>
                          /\ CountSent(mapper[t], b, "down") = 0
                          /\ CountSent(mapper[t], b, "up") = 0

\* one pass sent the up sequence of a button and the down sequence of another
C3_Witness ==
    /\ pc[1] = "loop"
    /\ last_pass[1] = "full"
    /\ \E b1, b2 \in Buttons :
          /\ b1 # b2
          /\ CountSent(mapper[1], b1, "down") = 1
          /\ CountSent(mapper[1], b2, "up") = 1
          /\ CountSent(mapper[1], b2, "repeat") = 0

----------------------------------------------------------------------------
(* Specification of the context and of the primary buttons: reports carry  *)
(* every value of the 3 low bits of byte 2, the left and right click bits  *)
(* in the contexts Normal(0) and Shift(1), and a movement.                 *)

\* [0x01, 0, 0, 10, 0, 0, 0, 0]
LeftClickMove == <<1, 0, 0, 10, 0, 0, 0, 0>>

ClickReports ==
    { <<0, 0, b2, 0, 0, 0, 0, 0>> : b2 \in 0..7 }
    \cup { <<b0, 0, b2, 0, 0, 0, 0, 0>> : b0 \in 0..3, b2 \in {0, 5} }
    \cup { LeftClickMove, <<9, 0, 0, 0, 0, 0, 0, 0>> }

NextClicks ==
    \/ \E r \in ClickReports : WorkersIdle(1) /\ ReadOk(1, r, ReadTimeout)
    \/ WorkersIdle(1) /\ ReadTimedOut(1)
    \/ ExecRecv(1)
    \/ ExecToken(1)
    \/ ExecDone(1)
    \/ AggDrain(1)
    \/ AggEmit(1)

InitClicks ==
    /\ \E row \in {ConfigsA, DefaultConfigs} : Running("S1" :> row)
    /\ track = {"pass"}

SpecClicks == InitClicks /\ [][NextClicks]_vars

\* the context named by the 3 low bits of the mode byte
ContextOf(bits) ==
    CASE bits = 0 -> <<"Normal", 0>>
      [] bits = 1 -> <<"Normal", 1>>
      [] bits = 2 -> <<"Normal", 2>>
      [] bits = 3 -> <<"Normal", 0>>
      [] bits = 4 -> <<"Shift", 0>>
      [] bits = 5 -> <<"Shift", 1>>
      [] bits = 6 -> <<"Shift", 2>>
      [] bits = 7 -> <<"Normal", 0>>

\* C4: the Mapper's context is Normal(0) before the first full pass and from
\* then on the context named by the 3 low bits of byte 2 of the most recent
\* full-pass report (the session's buffer, which a timed out read leaves as
\* it is): 0, 1, 2 give Normal(0, 1, 2), 4, 5, 6 give Shift(0, 1, 2), 3 and 7
\* give Normal(0); a timeout pass does not change it.
C4_ContextFromLastFullReport ==
    \A t \in Threads :
        pc[t] = "loop" =>
            mapper[t].mode =
                IF passes[t].full = 0 THEN <<"Normal", 0>>
                ELSE ContextOf(Byte(buffer[t], 2) % 8)

\* a timeout pass after a full-pass report with mode bits 7, itself read in
\* a Shift context
C4_Witness ==
    /\ pc[1] = "loop"
    /\ last_pass[1] = "timeout"
    /\ passes[1].full = 2
    /\ Byte(buffer[1], 2) % 8 = 7
    /\ Byte(prev_buffer[1], 2) % 8 = 7
    /\ mapper[1].mode = <<"Normal", 0>>

\* how many times the last pass called the given Enigo mouse function
CountInjected(m, call) ==
    Cardinality({ i \in 1..Len(m.injected) : m.injected[i] = call })

\* C10: a full pass emits a left (right) mouse down exactly when bit 0 (bit
\* 1) of byte 0 is set in its report and was clear in the last full-pass
\* report (or there was none), and a mouse up exactly when it is clear and
\* was set, whatever the row and the context; a timeout pass emits neither.
\* The report [0x01,0,0,10,0,0,0,0] read first emits one left mouse down and
\* nothing else, and adds (10, 0) to the accumulator, which the movement
\* worker then takes.
C10_PrimaryButtonEdges ==
    \A t \in Threads :
        (pc[t] = "loop" /\ last_pass[t] # "none") =>
            LET was == prev_buffer[t]
                is == buffer[t]
                full == last_pass[t] = "full"
                Expected(k, from, to) ==
                    IF full THEN Rise(Bit(Byte(from, 0), k), Bit(Byte(to, 0), k))
                    ELSE 0
            IN  /\ CountInjected(mapper[t], <<"mouse_down", "Left">>) = Expected(0, was, is)
                /\ CountInjected(mapper[t], <<"mouse_up", "Left">>) = Expected(0, is, was)
                /\ CountInjected(mapper[t], <<"mouse_down", "Right">>) = Expected(1, was, is)
                /\ CountInjected(mapper[t], <<"mouse_up", "Right">>) = Expected(1, is, was)
                /\ (passes[t].all = 1 /\ full /\ is = LeftClickMove) =>
                      /\ mapper[t].injected = << <<"mouse_down", "Left">> >>
                      /\ mapper[t].moved = <<10, 0>>
                      /\ agg[t].pc = "woken" => movement[t] = <<10, 0>>
                      /\ agg[t].pc = "emit" =>
                            agg[t].val = <<10, 0>> /\ movement[t] = <<0, 0>>

\* the first report was [0x01,0,0,10,0,0,0,0] and the accumulator holds its
\* movement
C10_Witness ==
    /\ pc[1] = "loop"
    /\ passes[1].all = 1
    /\ last_pass[1] = "full"
    /\ buffer[1] = LeftClickMove
    /\ mapper[1].injected = << <<"mouse_down", "Left">> >>
    /\ movement[1] = <<10, 0>>

----------------------------------------------------------------------------
(* Specification of the movement: the session thread reads reports that    *)
(* move the pointer while the movement worker drains and emits, in any     *)
(* interleaving; a notify_one that finds the worker not waiting is lost.   *)

\* reports with displacements (10, 0), (-10, 0) and (0, -10)
MoveReports ==
    { <<0, 0, 0, 10, 0, 0, 0, 0>>, <<0, 0, 0, 246, 0, 0, 0, 0>>,
      <<0, 0, 0, 0, 0, 246, 0, 0>> }

NextMove ==
    \/ \E r \in MoveReports : ReadOk(1, r, ReadTimeout)
    \/ ReadTimedOut(1)
    \/ AggDrain(1)
    \/ AggEmit(1)

InitMove ==
    /\ Running("S1" :> DefaultConfigs)
    /\ track = {"motion"}

SpecMove == InitMove /\ [][NextMove]_vars

\* C7: the accumulator holds the sum of the displacements of the full-pass
\* reports processed since the last drain, however many they are (the value
\* one report carrying the summed displacement leaves), and a drain takes
\* that sum, which the worker then emits as one mouse_move_relative.
C7_AccumulatorSumsBatch ==
    \A t \in Threads :
        /\ movement[t] = motion[t].batch
        /\ agg[t].pc = "emit" => agg[t].val = motion[t].taken
        /\ (agg[t].pc # "emit" /\ agg[t].last[1] = "mouse_move_relative") =>
              agg[t].last = <<"mouse_move_relative",
                              motion[t].taken[1], motion[t].taken[2]>>

\* three reports went into the accumulator before a drain took their sum,
\* (-20, -10), which is the displacement of none of them
C7_Witness ==
    /\ agg[1].pc = "emit"
    /\ agg[1].val = <<-20, -10>>
    /\ motion[1].taken = <<-20, -10>>

\* C8: whatever the interleaving of the passes with the worker's drain and
\* emit, the displacement emitted so far, plus the drained displacement not
\* yet emitted, plus the accumulator, is the sum of the two's complement
\* values of bytes 3 and 5 of the full-pass reports processed so far: owed,
\* that sum less the emitted displacement, is the accumulator plus the
\* drained value.
C8_DisplacementConserved ==
    \A t \in Threads :
        motion[t].owed =
            <<movement[t][1] + agg[t].val[1], movement[t][2] + agg[t].val[2]>>

\* a report was accumulated while the worker held a drained displacement it
\* had not emitted yet
C8_Witness ==
    /\ agg[1].pc = "emit"
    /\ agg[1].val # <<0, 0>>
    /\ movement[1] # <<0, 0>>
    /\ agg[1].last[1] = "mouse_move_relative"

----------------------------------------------------------------------------
(* Specification of the hot reload: the sessions of two mice run while a   *)
(* client writes rows for either serial; the epoch test, the store read    *)
(* and the writes interleave freely.                                       *)

NextConfig ==
    \/ \E row \in {ConfigsA, ConfigsB} : ClientDeviceConfig("S1", row)
    \/ ClientDeviceConfig("S2", ConfigsB)
    \/ \E r \in ExecReports : WorkersIdle(1) /\ ReadOk(1, r, ReadTimeout)
    \/ \E t \in {1, 2} : WorkersIdle(t) /\ ReadTimedOut(t)
    \/ \E t \in {1, 2} : Reload(t)
    \/ \E t \in {1, 2} : ExecRecv(t)
    \/ \E t \in {1, 2} : ExecToken(t)
    \/ \E t \in {1, 2} : ExecDone(t)
    \/ \E t \in {1, 2} : AggDrain(t)
    \/ \E t \in {1, 2} : AggEmit(t)

InitConfig ==
    /\ Running(("S1" :> ConfigsA) @@ ("S2" :> DefaultConfigs))
    /\ track = {"fresh"}

SpecConfig == InitConfig /\ [][NextConfig]_vars

\* the sequence that button b's program in row has for the given kind of
\* send, in the context of m
ProgramOf(m, row, b, kind) ==
    LET state_token == GetStateToken(m, TokenizeButton(row[b]))
    IN  CASE kind = "down" -> state_token.down
          [] kind = "repeat" -> state_token.repeat
          [] kind = "up" -> state_token.up

\* C9: a cycle of a Mapper that started after the last DeviceConfig write for
\* its serial completed (fresh) has evaluated the buttons with the programs
\* compiled from the row the store holds for the serial: the Mapper's
\* programs are those of the row and every sequence the pass sent is the
\* row's. A write for another serial does not end fresh, so the Mapper of a
\* serial that was not written keeps answering with its own row's programs
\* through the reloads the writes cause.
C9_ReloadUsesWrittenRow ==
    \A t \in Threads :
        (pc[t] = "loop" /\ fresh[t]) =>
            /\ ButtonConfigsToken(mapper[t]) = FromConfig(config[serial_number[t]])
            /\ \A i \in 1..Len(mapper[t].sent) :
                  LET e == mapper[t].sent[i]
                  IN  e.vec = ProgramOf(mapper[t], config[serial_number[t]],
                                        e.button, e.kind)

\* after two writes, the second for S1, a cycle of S1's Mapper has pressed
\* the back button with the program of the new row, and S2's Mapper has
\* reloaded its row
C9_Witness ==
    /\ state_id = 2
    /\ pc[1] = "loop" /\ fresh[1]
    /\ config["S1"] = ConfigsB
    /\ CountSent(mapper[1], "back_button", "down") = 1
    /\ pc[2] = "loop" /\ fresh[2]
    /\ mapper[2].last_mouses_config_state_id = 2
    /\ config["S2"] # ConfigsB

----------------------------------------------------------------------------
(* Specification of basic emulation: reports carry wheel bytes, the middle *)
(* click bit in contexts where the scroll button is and is not programmed, *)
(* click bits with movements, and presses of the back button; reads can    *)
(* time out, also while the movement worker has not yet drained the        *)
(* accumulator, and a client can write the row.                            *)

\* [0x07, 0, 1, 10, 0, 246, 0, 1] and [0x0B, 0, 0, 0, 0, 10, 0, 255]
StaleUp == <<7, 0, 1, 10, 0, 246, 0, 1>>
StaleDown == <<11, 0, 0, 0, 0, 10, 0, 255>>

BasicReports ==
    { <<0, 0, 0, 0, 0, 0, 0, b7>> : b7 \in {0, 1, 2, 254, 255} }
    \cup { <<b0, 0, b2, 0, 0, 0, 0, 0>> : b0 \in {0, 4}, b2 \in {0, 1} }
    \cup { <<4, 0, b2, 0, 0, 0, 0, 0>> : b2 \in {2, 4} }
    \cup { StaleUp, StaleDown }

NextBasic ==
    \/ \E r \in BasicReports : WorkersIdle(1) /\ ReadOk(1, r, ReadTimeout)
    \/ ExecIdle(1) /\ ReadTimedOut(1)
    \/ Reload(1)
    \/ ClientDeviceConfig("S1", DefaultConfigs)
    \/ ExecRecv(1)
    \/ ExecToken(1)
    \/ ExecDone(1)
    \/ AggDrain(1)
    \/ AggEmit(1)

InitBasic ==
    /\ Running("S1" :> ConfigsC)
    /\ track = {"pass"}

SpecBasic == InitBasic /\ [][NextBasic]_vars

\* the calls the last pass made on the vertical scroll primitive, in order
ScrollCalls(m) ==
    SelectSeq(m.injected, LAMBDA call : call[1] = "mouse_scroll_y")

\* C11: a full pass whose report has byte 7 = 1 makes exactly one one-notch
\* vertical scroll call in the wheel's up direction (length -1), byte 7 = 255
\* exactly one in the down direction (length 1), and every other value of
\* byte 7 none; a timeout pass makes none.
C11_WheelNotches ==
    \A t \in Threads :
        (pc[t] = "loop" /\ last_pass[t] # "none") =>
            ScrollCalls(mapper[t]) =
                IF last_pass[t] = "full" /\ Byte(buffer[t], 7) = 1
                THEN << <<"mouse_scroll_y", -1>> >>
                ELSE IF last_pass[t] = "full" /\ Byte(buffer[t], 7) = 255
                THEN << <<"mouse_scroll_y", 1>> >>
                ELSE << >>

\* a report with wheel byte 255 has scrolled one notch down after a report
\* with wheel byte 2 scrolled nothing
C11_Witness ==
    /\ pc[1] = "loop"
    /\ last_pass[1] = "full"
    /\ Byte(prev_buffer[1], 7) = 2
    /\ Byte(buffer[1], 7) = 255
    /\ ScrollCalls(mapper[1]) = << <<"mouse_scroll_y", 1>> >>

----------------------------------------------------------------------------
(* Specification of the read loop of one session: a read returns a report, *)
(* times out or fails; the row of the session can be rewritten or deleted  *)
(* meanwhile; after the loop the thread tears the session down.            *)

NextRead ==
    \/ \E r \in ExecReports : WorkersIdle(1) /\ ReadOk(1, r, ReadTimeout)
    \/ WorkersIdle(1) /\ ReadTimedOut(1)
    \/ ReadErr(1)
    \/ Reload(1)
    \/ ClientDeviceConfig("S1", ConfigsB)
    \/ PollerRemove("S1")
    \/ PollerBump
    \/ SessionRemove(1)
    \/ SessionNotify(1)
    \/ PublishDeviceList
    \/ ExecRecv(1)
    \/ ExecToken(1)
    \/ ExecDone(1)
    \/ AggDrain(1)
    \/ AggEmit(1)

InitRead ==
    /\ Running("S1" :> ConfigsA)
    /\ track = {"pass"}

SpecRead == InitRead /\ [][NextRead]_vars

\* this step completes one pass of the given kind for thread t
PassDone(t, pass) ==
    /\ pc'[t] = "loop"
    /\ last_pass'[t] = pass
    /\ passes'[t] = CountPass(passes[t], pass)

\* this step calls the pass of the given kind for thread t: the pass runs
\* in this step, or it first waits for the store to reload the row
PassCalled(t, pass) ==
    \/ PassDone(t, pass)
    \/ pc'[t] = "reload_" \o pass /\ passes'[t] = passes[t]

\* the thread has left the read loop by its break
LoopLeft(t) == pc[t] \in {"remove", "notify", "done"}

\* C13: in a started session a successful read calls one full pass and a
\* timed out read one mapped-only pass, each completed once (in the same
\* step or after the reload of the row, unless the row is gone); any other
\* read error completes no pass and leaves the loop; the loop is left by a
\* read error only, never by a timeout; after the loop is left the thread
\* reads nothing, completes no pass, and sends nothing to its workers.
C13_OneActionPerReadOutcome ==
    [][\A t \in Threads :
        /\ (\E r \in ExecReports : ReadOk(t, r, ReadTimeout)) => PassCalled(t, "full")
        /\ ReadTimedOut(t) => PassCalled(t, "timeout")
        /\ (pc[t] = "reload_full" /\ pc'[t] # pc[t]) =>
                PassDone(t, "full") \/ pc'[t] = "panicked"
        /\ (pc[t] = "reload_timeout" /\ pc'[t] # pc[t]) =>
                PassDone(t, "timeout") \/ pc'[t] = "panicked"
        /\ (pc[t] = "loop" /\ pc'[t] = "loop"
                /\ << mapper[t], buffer[t] >> # << mapper'[t], buffer'[t] >>) =>
                PassDone(t, "full") \/ PassDone(t, "timeout")
        /\ ReadErr(t) =>
                /\ LoopLeft(t)'
                /\ passes'[t] = passes[t] /\ last_pass'[t] = last_pass[t]
                /\ queue'[t] = queue[t] /\ movement'[t] = movement[t]
        /\ (pc[t] = "loop" /\ LoopLeft(t)') => ReadErr(t)
        /\ LoopLeft(t) =>
                /\ LoopLeft(t)'
                /\ mapper'[t] = mapper[t] /\ buffer'[t] = buffer[t]
                /\ passes'[t] = passes[t] /\ last_pass'[t] = last_pass[t]
                /\ Len(queue'[t]) <= Len(queue[t])
                /\ movement'[t] \in {movement[t], <<0, 0>>} ]_vars

\* a session that has completed two full passes and then a timeout pass has
\* left its loop on a read error and is in its teardown
C13_Witness ==
    /\ pc[1] = "notify"
    /\ passes[1].full = 2
    /\ last_pass[1] = "timeout"
    /\ ~Listed(device_list, "S1")

----------------------------------------------------------------------------
(* Specification of the client's requests: the client asks for the row of  *)
(* either serial and writes rows while the watcher, sessions that fail to  *)
(* start and an external edit change the registry and the store.           *)

NextRequest ==
    \/ \E serial \in Serials : RequestDeviceConfig(serial)
    \/ ClientReceive
    \/ ClientDeviceConfig("S1", ConfigsB)
    \/ PollerRemove("S1")
    \/ PollerBump
    \/ \E serial \in Serials, t \in Threads : WatcherVisit(serial, t)
    \/ \E t \in Threads : StartFail(t)
    \/ \E t \in Threads : SessionRemove(t)

SpecRequest == Init /\ [][NextRequest]_vars

\* C14: the handling of a RequestDeviceConfig leaves the store, the epoch
\* and the registry as they are; for a serial without a row it sends
\* nothing; for a serial with a row it sends exactly one DeviceConfig that
\* carries the serial and a list of 15 entries, the entries of the row.
C14_RequestDeviceConfigAnswer ==
    [][\A serial \in Serials :
        RequestDeviceConfig(serial) =>
            /\ config' = config
            /\ state_id' = state_id /\ poller_pending' = poller_pending
            /\ device_list' = device_list
            /\ IF HasRow(config, serial)
               THEN /\ Len(client'.data) = Len(client.data) + 1
                    /\ SubSeq(client'.data, 1, Len(client.data)) = client.data
                    /\ LET sent == client'.data[Len(client'.data)]
                       IN  /\ sent.command = "DeviceConfig"
                           /\ sent.serial_number = serial
                           /\ Len(sent.config) = 15
                           /\ ButtonConfigsFromConfig(sent.config) = config[serial]
               ELSE client'.data = client.data ]_vars

\* the row of S1 has been sent in answer to a request, and a later request
\* for S2, which has no row, has sent nothing
C14_Witness ==
    /\ client.request = "S2"
    /\ ~HasRow(config, "S2")
    /\ Len(client.data) = 1
    /\ client.data[1].serial_number = "S1"
    /\ ButtonConfigsFromConfig(client.data[1].config) = ConfigsB

\* the program of the scroll button in the context of m
ScrollButtonProgram(m) ==
    GetStateToken(m, ButtonConfigsToken(m)["scroll_button"])

\* C15: a pass emits a middle mouse down or up only if it is a full pass
\* and the program of the scroll button for the context the pass has set
\* has empty down, repeat and up sequences, and then at most one, the one of
\* the bit's value, after which the remembered middle state is the bit;
\* when one of the three sequences is not empty, basic emulation emits no
\* middle down or up, whatever the middle-click bit (byte 0, bit 2) does.
C15_MiddleClickOnlyUnprogrammed ==
    \A t \in Threads :
        (pc[t] = "loop" /\ last_pass[t] # "none") =>
            LET program == ScrollButtonProgram(mapper[t])
                unprogrammed == /\ program.down = << >>
                                /\ program.repeat = << >>
                                /\ program.up = << >>
                downs == CountInjected(mapper[t], <<"mouse_down", "Middle">>)
                ups == CountInjected(mapper[t], <<"mouse_up", "Middle">>)
                middle == Bit(Byte(buffer[t], 0), 2)
            IN  /\ ~unprogrammed => downs + ups = 0
                /\ last_pass[t] = "timeout" => downs + ups = 0
                /\ downs + ups <= 1
                /\ downs = 1 => middle
                /\ ups = 1 => ~middle
                /\ (last_pass[t] = "full" /\ unprogrammed) =>
                        mapper[t].click_state.middle = middle

\* the middle bit was set in a context where the scroll button has only an
\* up sequence, which emitted nothing, and the report that then cleared the
\* bit in a context without a program emitted nothing either
C15_Witness ==
    /\ pc[1] = "loop"
    /\ last_pass[1] = "full"
    /\ prev_buffer[1] = <<4, 0, 2, 0, 0, 0, 0, 0>>
    /\ buffer[1] = <<0, 0, 0, 0, 0, 0, 0, 0>>
    /\ mapper[1].button_configs = ConfigsC
    /\ mapper[1].injected = << >>
    /\ passes[1].all = 2

----------------------------------------------------------------------------
(* The order of the buttons within one cycle, under SpecEdges *)

\* the place of button b in the order of the calls of mapped_emulation
ButtonIndex(b) == CHOOSE i \in 1..Len(ButtonOrder) : ButtonOrder[i] = b

\* seq is what is left of whole after a number of its first elements is taken
IsSuffix(seq, whole) ==
    /\ Len(seq) <= Len(whole)
    /\ seq = SubSeq(whole, Len(whole) - Len(seq) + 1, Len(whole))

\* C16: the sequences a cycle sends are in the order of the 15 calls of
\* mapped_emulation, whatever the report: when buttons A and B both send in
\* one cycle and A comes before B in that order, all of A's sequences are
\* sent before B's; and the emulation worker takes them in the order sent:
\* the sequence in execution followed by the channel content is what is left
\* of the cycle's sends after the first ones have been executed.
C16_FixedButtonOrder ==
    \A t \in Threads :
        pc[t] = "loop" =>
            /\ \A i, j \in 1..Len(mapper[t].sent) :
                  i < j => ButtonIndex(mapper[t].sent[i].button)
                             <= ButtonIndex(mapper[t].sent[j].button)
            /\ IsSuffix(InExecutor(t), mapper[t].sent)

\* one cycle has sent the up sequences of back and forwards and the down
\* sequences of the two hat buttons, and the worker, done with the first
\* two, executes the third
C16_Witness ==
    /\ pc[1] = "loop"
    /\ Len(mapper[1].sent) = 4
    /\ mapper[1].sent[1].button = "back_button"
    /\ mapper[1].sent[2].button = "forwards_button"
    /\ mapper[1].sent[3].button = "hat_top"
    /\ mapper[1].sent[4].button = "hat_bottom"
    /\ exec[1].busy
    /\ exec[1].cur = mapper[1].sent[3]
    /\ Len(queue[1]) = 1

----------------------------------------------------------------------------
(* The movement worker and reports without movement, under SpecBasic *)

\* C17: the movement worker calls mouse_move_relative only with a drained
\* accumulator that is not zero: it never emits the motion (0, 0), also
\* after a full pass whose report has X and Y deltas 0 has woken it.
C17_NoZeroMotion ==
    \A t \in Threads : agg[t].last # <<"mouse_move_relative", 0, 0>>

----------------------------------------------------------------------------
(* The epoch and the writers of the store, under SpecRequest *)

\* C18: every step that changes the contents of the configuration store
\* increments the Config Epoch, in the same step or, for the poller, whose
\* update() and fetch_add are two steps, in the step that follows its
\* update(); the epoch is never decremented.
C18_EveryStoreChangeBumpsEpoch ==
    [][ /\ config' # config =>
              \/ state_id' = state_id + 1
              \/ ~poller_pending /\ poller_pending'
        /\ poller_pending /\ ~poller_pending' => state_id' = state_id + 1
        /\ state_id' >= state_id ]_vars

----------------------------------------------------------------------------
(* The frame of a timeout pass, under SpecBasic *)

\* this step is a timeout pass of thread t, or its start when the pass has
\* to wait for the reload of the row
TimeoutPassStep(t) ==
    \/ ReadTimedOut(t)
    \/ pc[t] = "reload_timeout" /\ pc'[t] = "loop"

\* C19: a timeout pass leaves the context, the remembered left, right and
\* middle click state, the remembered states of the 15 buttons and the
\* movement accumulator as they are, calls no mouse down, up or scroll, and
\* does not notify the movement worker, whatever the stale buffer holds;
\* what it adds to the channel of the emulation worker are repeat sequences
\* only, and until it has reloaded the row it adds nothing.
C19_TimeoutPassFrame ==
    [][\A t \in Threads :
        TimeoutPassStep(t) =>
            /\ buffer'[t] = buffer[t]
            /\ mapper'[t].mode = mapper[t].mode
            /\ mapper'[t].click_state = mapper[t].click_state
            /\ mapper'[t].button_state = mapper[t].button_state
            /\ movement'[t] = movement[t]
            /\ agg'[t] = agg[t]
            /\ mapper'[t].injected = << >>
            /\ mapper'[t].moved = <<0, 0>> /\ ~mapper'[t].notified
            /\ \E added \in {mapper'[t].sent} :
                  /\ queue'[t] = queue[t] \o added
                  /\ \A i \in 1..Len(added) : added[i].kind = "repeat"
                  /\ pc'[t] # "loop" => added = << >> ]_vars

\* a timeout pass on the stale report [0x0B,0,0,0,0,10,0,255] (left, right
\* and back held, a Y delta, wheel byte 255) has sent the repeat sequence of
\* the back button and nothing else, while the movement worker had not yet
\* taken the accumulator
C19_Witness ==
    /\ pc[1] = "loop"
    /\ last_pass[1] = "timeout"
    /\ buffer[1] = StaleDown
    /\ mapper[1].injected = << >>
    /\ Len(mapper[1].sent) = 1
    /\ mapper[1].sent[1].kind = "repeat"
    /\ mapper[1].sent[1].vec # << >>
    /\ movement[1] = <<0, 10>>
    /\ agg[1].pc = "woken"
    /\ mapper[1].click_state.left /\ mapper[1].click_state.right

----------------------------------------------------------------------------
(* The repeat sequence within one cycle, under SpecEdges *)

\* C20: a cycle sends the repeat sequence of a button at most once and only
\* when the state it decodes for the button is held, so never in the cycle
\* that sends the button's up sequence and never while the button is up;
\* a cycle that sends both the down and the repeat sequence of a button
\* sends the down sequence first.
C20_RepeatOnlyWhileHeld ==
    \A t \in Threads :
        (pc[t] = "loop" /\ last_pass[t] # "none") =>
            \A b \in Buttons :
                /\ CountSent(mapper[t], b, "repeat") <= 1
                /\ CountSent(mapper[t], b, "repeat") = 1 =>
                      /\ DecodeButtons(buffer[t])[b]
                      /\ mapper[t].button_state[b]
                      /\ CountSent(mapper[t], b, "up") = 0
                /\ \A i, j \in 1..Len(mapper[t].sent) :
                      ( /\ mapper[t].sent[i].button = b
                        /\ mapper[t].sent[j].button = b
                        /\ mapper[t].sent[i].kind = "down"
                        /\ mapper[t].sent[j].kind = "repeat" ) => i < j

\* the cycle that saw the back button go down found its timer elapsed and
\* sent the down sequence and then the repeat sequence; the forwards button,
\* released in the same cycle with its timer elapsed too, sent its up
\* sequence and no repeat
C20_Witness ==
    /\ pc[1] = "loop"
    /\ last_pass[1] = "full"
    /\ DecodeButtons(prev_buffer[1])["forwards_button"]
    /\ ~DecodeButtons(prev_buffer[1])["back_button"]
    /\ Len(mapper[1].sent) = 3
    /\ mapper[1].sent[1].button = "back_button"
    /\ mapper[1].sent[1].kind = "down"
    /\ mapper[1].sent[2].button = "back_button"
    /\ mapper[1].sent[2].kind = "repeat"
    /\ mapper[1].sent[3].kind = "up"

----------------------------------------------------------------------------
(* The two mutexes, lock by lock: the watcher's visit of one device and    *)
(* the RequestDeviceConfig handler are split at the points where they take *)
(* and release device_list_mutex and mouses_config_mutex; the other users  *)
(* take one mutex, use it and release it in one step.                      *)

RegistryFree == locks.device_list_mutex = "free"
StoreFree == locks.mouses_config_mutex = "free"

\* every other variable of the session threads and their workers
thread_vars == << pc, serial_number, mapper_vars, worker_vars >>

\* let mut device_list = device_list_mutex.lock_poisoned(), for a device
\* whose serial could be read (a session thread slot is left for it)
WatcherLockRegistry(serial) ==
    /\ locks.watcher = "tick"
    /\ RegistryFree
    /\ Listed(device_list, serial) \/ \E t \in Threads : pc[t] = "free"
    /\ locks' = [locks EXCEPT !.device_list_mutex = "watcher",
                              !.watcher = "locked", !.found = serial]
    /\ UNCHANGED << track, kernel, client, registry_vars, store_vars, thread_vars >>

\* device_list.get(&serial_number) is Some: the guard is dropped
WatcherListed ==
    /\ locks.watcher = "locked"
    /\ Listed(device_list, locks.found)
    /\ locks' = [locks EXCEPT !.device_list_mutex = "free", !.watcher = "tick"]
    /\ UNCHANGED << track, kernel, client, registry_vars, store_vars, thread_vars >>

\* mouses_config_mutex.lock().await returns, the registry guard still alive
WatcherLockStore ==
    /\ locks.watcher = "locked"
    /\ ~Listed(device_list, locks.found)
    /\ StoreFree
    /\ locks' = [locks EXCEPT !.mouses_config_mutex = "watcher",
                              !.watcher = "in_store"]
    /\ UNCHANGED << track, kernel, client, registry_vars, store_vars, thread_vars >>

\* contains_key is true: the block ends and the store guard is dropped
WatcherRowExists ==
    /\ locks.watcher = "in_store"
    /\ HasRow(config, locks.found)
    /\ locks' = [locks EXCEPT !.mouses_config_mutex = "free",
                              !.watcher = "ensured"]
    /\ UNCHANGED << track, kernel, client, registry_vars, store_vars, thread_vars >>

\* contains_key is false: insert(serial_number, ButtonConfigs::default())
WatcherInsertDefault ==
    /\ locks.watcher = "in_store"
    /\ ~HasRow(config, locks.found)
    /\ config' = Insert(config, locks.found, DefaultConfigs)
    /\ fresh' = Track("fresh", fresh, Stale(locks.found))
    /\ locks' = [locks EXCEPT !.watcher = "save"]
    /\ UNCHANGED << track, kernel, client, registry_vars, state_id, poller_pending, pc,
                    serial_number, mapper, buffer, last_pass, passes,
                    prev_buffer, watch, worker_vars >>

\* mouses_config.save() has written the file: the store guard is dropped
WatcherSave ==
    /\ locks.watcher = "save"
    /\ locks' = [locks EXCEPT !.mouses_config_mutex = "free",
                              !.watcher = "ensured"]
    /\ UNCHANGED << track, kernel, client, registry_vars, store_vars, thread_vars >>

\* device_list.insert(serial_number), spawn of the session thread, and the
\* registry guard is dropped at the end of the block
WatcherSpawn(t) ==
    /\ locks.watcher = "ensured"
    /\ pc[t] = "free"
    /\ \A u \in Threads : u < t => pc[u] # "free"
    /\ device_list' = device_list \cup {locks.found}
    /\ pc' = [pc EXCEPT ![t] = "start"]
    /\ serial_number' = [serial_number EXCEPT ![t] = locks.found]
    /\ locks' = [locks EXCEPT !.device_list_mutex = "free", !.watcher = "tick"]
    /\ UNCHANGED << track, kernel, client, host, store_vars, mapper_vars, worker_vars >>

\* Commands::RequestDeviceConfig: the message is decoded and
\* mouses_config_mutex.lock().await returns
HandlerLockStore(serial) ==
    /\ locks.handler = "recv"
    /\ StoreFree
    /\ Len(client.data) < MaxClient
    /\ locks' = [locks EXCEPT !.mouses_config_mutex = "handler",
                              !.handler = "respond"]
    /\ client' = [client EXCEPT !.request = serial]
    /\ UNCHANGED << track, kernel, registry_vars, store_vars, thread_vars >>

\* a handler that answers under the registry lock as well
HandlerRespondUnderRegistry ==
    /\ locks.handler = "respond"
    /\ RegistryFree
    /\ client' = [client EXCEPT !.data =
                     IF HasRow(config, client.request)
                     THEN Append(@, DeviceConfigData(client.request,
                                        ToConfig(config[client.request])))
                     ELSE @]
    /\ locks' = [locks EXCEPT !.mouses_config_mutex = "free",
                              !.handler = "recv"]
    /\ UNCHANGED << track, kernel, registry_vars, store_vars, thread_vars >>

\* the row, if there is one, is sent (send_async awaited under the store
\* guard), then the guard is dropped
HandlerRespond ==
    /\ locks.handler = "respond"
    /\ client' = [client EXCEPT !.data =
                     IF HasRow(config, client.request)
                     THEN Append(@, DeviceConfigData(client.request,
                                        ToConfig(config[client.request])))
                     ELSE @]
    /\ locks' = [locks EXCEPT !.mouses_config_mutex = "free",
                              !.handler = "recv"]
    /\ UNCHANGED << track, kernel, registry_vars, store_vars, thread_vars >>

\* the watcher and the session threads it spawns, with an external edit of
\* the store; a step that takes one mutex and releases it again waits
\* until the mutex is free
NextLocks ==
    \/ \E serial \in Serials : WatcherLockRegistry(serial)
    \/ WatcherListed
    \/ WatcherLockStore
    \/ WatcherRowExists
    \/ WatcherInsertDefault
    \/ WatcherSave
    \/ \E t \in Threads : WatcherSpawn(t)
    \/ StoreFree /\ PollerRemove("S1")
    \/ PollerBump
    \/ \E t \in Threads : StartFail(t)
    \/ \E t \in Threads : StartOk(t)
    \/ \E t \in Threads : StoreFree /\ MapperNew(t)
    \/ \E t \in Threads : ReadErr(t)
    \/ \E t \in Threads : RegistryFree /\ SessionRemove(t)
    \/ \E t \in Threads : SessionNotify(t)
    \/ RegistryFree /\ PublishDeviceList

SpecLocks == Init /\ [][NextLocks]_vars

\* the watcher lists serial and starts thread t for it
Spawned(serial, t) ==
    /\ ~Listed(device_list, serial)
    /\ Listed(device_list', serial)
    /\ pc[t] = "free"
    /\ pc'[t] = "start"
    /\ serial_number'[t] = serial

\* C21: when the watcher lists a serial and spawns its session the store
\* has a row for it, which the watcher has either found and left as it was
\* or created as the default and saved (nothing else of the store changes
\* under the watcher's guard), and the Mapper::new of every session finds
\* the row of its serial.
C21_RowBeforeSession ==
    [][ /\ \A serial \in Serials :
              Listed(device_list', serial) /\ ~Listed(device_list, serial) =>
                  /\ HasRow(config, serial)
                  /\ locks.watcher = "ensured"
                  /\ \E t \in Threads : Spawned(serial, t)
        /\ (locks.mouses_config_mutex = "watcher" /\ config' # config) =>
              /\ ~HasRow(config, locks.found)
              /\ config' = Insert(config, locks.found, DefaultConfigs)
              /\ locks'.watcher = "save"
        /\ (locks.watcher = "in_store" /\ locks'.watcher = "ensured") =>
              HasRow(config, locks.found) /\ config' = config
        /\ \A t \in Threads :
              (pc[t] = "new" /\ pc'[t] # "new") =>
                  HasRow(config, serial_number[t]) /\ pc'[t] = "loop" ]_vars

\* the watcher is stopped in mouses_config_mutex.lock().await
WatcherWaitsForStore ==
    /\ locks.watcher = "locked"
    /\ ~Listed(device_list, locks.found)
    /\ ~StoreFree

\* C22: whoever holds the Active Registry lock is at a lookup, an insert or
\* a remove: the holder is neither waiting for the configuration-store
\* lock, nor inside the store's guard, nor saving the store.
C22_RegistryLockOnlyForPointAccess ==
    ~RegistryFree =>
        /\ ~WatcherWaitsForStore
        /\ locks.mouses_config_mutex # "watcher"
        /\ locks.watcher \notin {"in_store", "save"}

----------------------------------------------------------------------------
(* The movement worker under fair scheduling: its thread runs whenever it  *)
(* can (it is woken, or it has a value to emit); the mouse may stay still, *)
(* so no read is ever required to return a report.                         *)

SpecMoveFair ==
    /\ SpecMove
    /\ WF_vars(AggDrain(1))
    /\ WF_vars(AggEmit(1))

\* C23: whatever is added to the accumulator is eventually drained by the
\* movement worker, and whatever the worker has drained is eventually
\* emitted, also when notify_one was called while the worker was not
\* waiting and no full pass follows.
C23_DisplacementEventuallyEmitted ==
    /\ (movement[1] # <<0, 0>>) ~> (movement[1] = <<0, 0>>)
    /\ (agg[1].pc = "emit") ~> (agg[1].pc = "waiting")

----------------------------------------------------------------------------
(* The registry and the session threads                                    *)

\* thread t is running the closure spawned by the watcher
ThreadAlive(t) == pc[t] \in InRunDevice \cup {"remove", "notify"}

\* C24: every serial in the Active Registry has a live session thread, also
\* after an external edit has removed its row from the store, the epoch
\* has moved and its Mapper has reloaded.
C24_ListedOnlyWithLiveSession ==
    \A serial \in Serials :
        Listed(device_list, serial) =>
            \E t \in Threads : serial_number[t] = serial /\ ThreadAlive(t)

----------------------------------------------------------------------------
(* Sessions of mice whose interface may be bound to a kernel driver        *)

NextDriver ==
    \/ \E serial \in Serials, t \in Threads : WatcherVisit(serial, t)
    \/ \E t \in Threads, active \in BOOLEAN : StartRefused(t, active)
    \/ \E t \in Threads, active \in BOOLEAN : StartClaimed(t, active)
    \/ \E t \in Threads : MapperNew(t)
    \/ \E t \in Threads : ReadTimedOut(t)
    \/ \E t \in Threads : ReadErr(t)
    \/ \E t \in Threads : SessionRemove(t)
    \/ \E t \in Threads : SessionNotify(t)
    \/ PublishDeviceList

SpecDriver == Init /\ [][NextDriver]_vars

\* C25: a session that has detached the kernel driver has reattached it
\* when run_device returns, whether it returns after a disconnect or
\* because the configuration, the claim or the alternate setting failed.
C25_KernelDriverReattached ==
    \A t \in Threads :
        pc[t] \in {"remove", "notify", "done"} => kernel[t] # "detached"

----------------------------------------------------------------------------
(* One session whose back button is pressed and released while the mode    *)
(* selector moves and a client writes the row                              *)

ProgramReports ==
    { <<b0, 0, b2, 0, 0, 0, 0, 0>> : b0 \in {0, 8}, b2 \in {0, 5} }

NextProgram ==
    \/ \E r \in ProgramReports : WorkersIdle(1) /\ ReadOk(1, r, ReadTimeout)
    \/ WorkersIdle(1) /\ ReadTimedOut(1)
    \/ Reload(1)
    \/ ClientDeviceConfig("S1", ConfigsB)
    \/ ExecRecv(1)
    \/ ExecToken(1)
    \/ ExecDone(1)
    \/ AggDrain(1)
    \/ AggEmit(1)

InitProgram ==
    /\ Running("S1" :> ConfigsA)
    /\ track = {"pass", "press"}

SpecProgram == InitProgram /\ [][NextProgram]_vars

\* C26: the up sequence sent at the release of a button is the up sequence
\* of the Macro Program whose down sequence was sent at its press, also
\* when the mode selector has moved or the row has been reloaded in between.
C26_UpFromProgramOfPress ==
    \A t \in Threads : \A b \in Watched :
        watch[t].up_sent[b] = watch[t].up_owed[b]

----------------------------------------------------------------------------
(* The driver descriptor and the config list of the DeviceConfig messages  *)

\* the button name vector given to DriverConfigurationDescriptor::new
button_name_vec ==
    << "Scroll Button", "Left ActionLock", "Right ActionLock",
       "Forwards Button", "Back Button", "Thumb Anticlockwise",
       "Thumb Clockwise", "Hat Top", "Hat Left", "Hat Right", "Hat Bottom",
       "Button 1", "Button 2", "Precision Aim", "Button 3" >>

\* the descriptor as the client decodes it
DescriptorData ==
    [command |-> "DriverConfigurationDescriptor", mode_count |-> 3,
     shift_mode_count |-> 3, button_name_vec |-> button_name_vec]

\* update_device_list: DeviceList::new(serial_number_vec)
DeviceListData == [command |-> "DeviceList", serial_number_vec |-> device_list]

\* ConnectionState::Start: the descriptor is sent, then the device list
ConnectionStart ==
    /\ Len(client.data) + 2 <= MaxClient
    /\ client' = [client EXCEPT !.data = @ \o << DescriptorData, DeviceListData >>]
    /\ UNCHANGED << track, kernel, locks, registry_vars, store_vars, pc, serial_number,
                    mapper_vars, worker_vars >>

NextDescriptor ==
    \/ ConnectionStart
    \/ \E serial \in Serials : RequestDeviceConfig(serial)
    \/ ClientReceive
    \/ \E row \in {ConfigsB, ConfigsC} :
          ClientDeviceConfig("S1", ButtonConfigsFromConfig(ToConfig(row)))
    \/ \E serial \in Serials, t \in Threads : WatcherVisit(serial, t)
    \/ \E t \in Threads : StartFail(t)
    \/ \E t \in Threads : SessionRemove(t)

SpecDescriptor == Init /\ [][NextDescriptor]_vars

\* the name under which a configuration program shows a logical button
DisplayName ==
    [ scroll_button |-> "Scroll Button", left_actionlock |-> "Left ActionLock",
      right_actionlock |-> "Right ActionLock",
      forwards_button |-> "Forwards Button", back_button |-> "Back Button",
      thumb_anticlockwise |-> "Thumb Anticlockwise",
      thumb_clockwise |-> "Thumb Clockwise", hat_top |-> "Hat Top",
      hat_left |-> "Hat Left", hat_right |-> "Hat Right",
      hat_bottom |-> "Hat Bottom", button_1 |-> "Button 1",
      button_2 |-> "Button 2", precision_aim |-> "Precision Aim",
      button_3 |-> "Button 3" ]

\* a row in which every button carries its own name as its only macro
ProbeRow == [b \in Buttons |-> << << b >>, << >> >>]

\* the logical button whose ButtonConfig is the i-th entry of the config list
ConfigButton(i) == ToConfig(ProbeRow)[i][1][1]

\* C27: in every descriptor sent to the client the i-th button name is the
\* name of the logical button whose ButtonConfig is the i-th entry of the
\* config list of the DeviceConfig messages, for each of the 15 places, and
\* every row of the store survives to_config followed by from_config.
C27_DescriptorNamesConfigOrder ==
    /\ \A k \in 1..Len(client.data) :
          client.data[k].command = "DriverConfigurationDescriptor" =>
              /\ Len(client.data[k].button_name_vec) = 15
              /\ \A i \in 1..15 :
                    client.data[k].button_name_vec[i] = DisplayName[ConfigButton(i)]
    /\ \A serial \in DOMAIN config :
          /\ Len(ToConfig(config[serial])) = 15
          /\ ButtonConfigsFromConfig(ToConfig(config[serial])) = config[serial]

----------------------------------------------------------------------------
(* Sessions that come and go: the mouse S1 is found, sends reports, is     *)
(* unplugged and found again; the worker threads of every Mapper are       *)
(* scheduled fairly.                                                       *)

NextWorkers ==
    \/ \E t \in Threads : WatcherVisit("S1", t)
    \/ \E t \in Threads : StartOk(t)
    \/ \E t \in Threads : MapperNew(t)
    \/ \E t \in Threads, r \in ExecReports : WorkersIdle(t) /\ ReadOk(t, r, ReadTimeout)
    \/ \E t \in Threads : ReadErr(t)
    \/ \E t \in Threads : SessionRemove(t)
    \/ \E t \in Threads : SessionNotify(t)
    \/ PublishDeviceList
    \/ \E t \in Threads : ExecRecv(t)
    \/ \E t \in Threads : ExecToken(t)
    \/ \E t \in Threads : ExecDone(t)
    \/ \E t \in Threads : ExecEnd(t)
    \/ \E t \in Threads : AggDrain(t)
    \/ \E t \in Threads : AggEmit(t)

InitWorkers == Boot /\ config = "S1" :> ConfigsA /\ track = {"expect", "thread"}

SpecWorkers ==
    /\ InitWorkers /\ [][NextWorkers]_vars
    /\ \A t \in Threads :
          /\ WF_vars(ExecRecv(t)) /\ WF_vars(ExecToken(t))
          /\ WF_vars(ExecDone(t)) /\ WF_vars(ExecEnd(t))
          /\ WF_vars(AggDrain(t)) /\ WF_vars(AggEmit(t))

\* C28: once the Mapper of a session is dropped its two worker threads end:
\* the emulation worker when nothing sent is left to execute, and the
\* mouse movement worker as well.
C28_WorkersEndAfterDrop ==
    /\ [](\A t \in Threads : exec[t].thread = "ended" => expect[t] = <<>>)
    /\ \A t \in Threads :
          (MapperDropped(t) /\ exec[t].thread = "running")
              ~> (exec[t].thread = "ended")
    /\ \A t \in Threads :
          (MapperDropped(t) /\ agg[t].thread = "running")
              ~> (agg[t].thread = "ended")

----------------------------------------------------------------------------
(* One session with the wheel turned and with buttons that click the wheel *)

ScrollReports ==
    { <<0, 0, 0, 0, 0, 0, 0, b7>> : b7 \in {0, 1, 255} }
        \cup { <<b0, 0, 0, 0, 0, 0, 0, 0>> : b0 \in {8, 16} }

NextScroll ==
    \/ \E r \in ScrollReports : WorkersIdle(1) /\ ReadOk(1, r, ReadTimeout)
    \/ WorkersIdle(1) /\ ReadTimedOut(1)
    \/ ExecRecv(1)
    \/ ExecToken(1)
    \/ ExecDone(1)
    \/ AggDrain(1)
    \/ AggEmit(1)

InitScroll ==
    /\ Running("S1" :> ConfigsD)
    /\ track = {"pass"}

SpecScroll == InitScroll /\ [][NextScroll]_vars

\* C29: the call that a full pass makes for a wheel-up report (byte 7 = 1)
\* is the call the emulation worker makes for a Click(ScrollUp) token, and
\* the call for a wheel-down report (byte 7 = 255) is the call it makes for
\* a Click(ScrollDown) token.
C29_WheelAgreesWithScrollClicks ==
    \A t \in Threads :
        \A i \in 1..Len(ScrollCalls(mapper[t])) :
            /\ Byte(buffer[t], 7) = 1 =>
                  ScrollCalls(mapper[t])[i] = EmulateToken(<<"Click", "ScrollUp">>)
            /\ Byte(buffer[t], 7) = 255 =>
                  ScrollCalls(mapper[t])[i] = EmulateToken(<<"Click", "ScrollDown">>)

----------------------------------------------------------------------------
(* Everyone who takes device_list_mutex or mouses_config_mutex, each on a  *)
(* thread of its own that runs whenever it is not waiting for a mutex      *)

\* a step of the watcher's visit after it has taken the registry lock
WatcherStep ==
    \/ WatcherListed
    \/ WatcherLockStore
    \/ WatcherRowExists
    \/ WatcherInsertDefault
    \/ WatcherSave
    \/ \E t \in Threads : WatcherSpawn(t)

NextLockOrder ==
    \/ \E serial \in Serials : WatcherLockRegistry(serial)
    \/ WatcherStep
    \/ HandlerLockStore("S1")
    \/ HandlerRespond
    \/ ClientReceive
    \/ StoreFree /\ PollerUpdate("S1", ConfigsA)
    \/ PollerBump
    \/ \E t \in Threads : StartOk(t)
    \/ \E t \in Threads : StoreFree /\ MapperNew(t)
    \/ \E t \in Threads : WorkersIdle(t) /\ ReadTimedOut(t)
    \/ \E t \in Threads : StoreFree /\ Reload(t)
    \/ \E t \in Threads : ReadErr(t)
    \/ \E t \in Threads : RegistryFree /\ SessionRemove(t)
    \/ \E t \in Threads : SessionNotify(t)
    \/ RegistryFree /\ PublishDeviceList

\* The handler's task and the watcher run when they can; tokio's Mutex
\* grants the lock in the order of the requests, so the watcher, which may
\* find the store lock taken again and again, does get it.
SpecLockOrder ==
    /\ Init /\ [][NextLockOrder]_vars
    /\ SF_vars(WatcherStep)
    /\ WF_vars(HandlerRespond)

\* the holder of the store lock can go on
StoreHolderRuns ==
    \/ locks.mouses_config_mutex = "handler" /\ ENABLED HandlerRespond
    \/ locks.mouses_config_mutex = "watcher" /\ ENABLED WatcherStep

ClickOrderReports ==
    { <<b0, 0, b2, 0, 0, 0, 0, 0>> : b0 \in {0, 3, 4}, b2 \in {0, 2} }
    \cup { <<4, 0, 10, 0, 0, 0, 0, 0>> }

NextClickOrder ==
    \/ \E r \in ClickOrderReports : WorkersIdle(1) /\ ReadOk(1, r, ReadTimeout)
    \/ ExecIdle(1) /\ ReadTimedOut(1)
    \/ Reload(1)
    \/ ClientDeviceConfig("S1", DefaultConfigs)
    \/ ExecRecv(1)
    \/ ExecToken(1)
    \/ ExecDone(1)
    \/ AggDrain(1)
    \/ AggEmit(1)

InitClickOrder ==
    /\ Running("S1" :> ConfigsC)
    /\ track = {"pass", "click"}

SpecClickOrder == InitClickOrder /\ [][NextClickOrder]_vars

\* C31: for each of the left, right and middle buttons, the mouse_down and
\* mouse_up calls that basic emulation makes alternate and begin with a
\* mouse_down: the calls of a pass, put after the last call made before the
\* pass, never hold two downs or two ups in a row, and the first call ever
\* made is a down, whatever the reports, the contexts and the rows loaded,
\* also when the scroll button's program keeps the middle block from running.
C31_ClickEventsAlternate ==
    \A t \in Threads : \A n \in ClickNames :
        pc[t] \in {"loop", "reload_full", "reload_timeout"} =>
            LET calls == <<watch[t].click_before[n]>> \o ClickCalls(mapper[t], n)
            IN  /\ \A i \in 1..(Len(calls) - 1) : calls[i] # calls[i + 1]
                /\ (calls[1] = "none" /\ Len(calls) > 1) => calls[2] = "mouse_down"

\* after a reload, a pass sends the middle down for a press that began in an
\* earlier pass, where the scroll button's program kept the middle block from
\* running; the middle button had been pressed and released before
C31_Witness ==
    /\ pc[1] = "loop" /\ last_pass[1] = "full"
    /\ state_id > 0
    /\ Bit(Byte(prev_buffer[1], 0), 2) /\ Bit(Byte(buffer[1], 0), 2)
    /\ watch[1].click_before["Middle"] = "mouse_up"
    /\ ClickCalls(mapper[1], "Middle") = <<"mouse_down">>

====
